---- MODULE Spec2Model ----
(***************************************************************************)
(* Processing orchestration core of the background remover:                *)
(* MultiLibraryProcessor (backend/src/services/multi_library_processor.py),*)
(* ABTestingFramework (backend/src/services/ab_testing_framework.py) and   *)
(* PerformanceMonitor (backend/src/utils/performance_monitor.py).          *)
(* Times are in tenths of a second (2.0 s = 20).                           *)
(***************************************************************************)
EXTENDS Integers, Sequences, FiniteSets, TLC

(***************************************************************************)
(* Bounds of the model                                                     *)
(***************************************************************************)
\* calls of the public operations (process_with_fallback,
\* get_processor_health_report, reset_processor_health) begun in one behaviour
MaxCalls == 2
\* backend calls begun in one behaviour, over all requests
MaxInvocations == 4
\* request slots that may be in flight at the same time
Requests == <<"r1", "r2">>
\* durations a backend call that returns may take: at the budget, above it
ProcessTimes == {50, 60}
\* (preferred_tier, quality_mode) arguments the modelled requests are made with
RequestModes == {<<"none", FALSE>>, <<"high_quality", TRUE>>}
\* record_processing_metric calls made in one behaviour
MaxRecorded == 1
\* test results held by the framework in one behaviour
MaxResults == 2
\* ingests the monitor has taken at one instant before a behaviour begins
MaxBurst == 25
\* failures among those ingests
MaxBurstFailures == 2
\* free places of a buffer that is all but full before a behaviour begins
MaxSpare == 0
\* successful results a test holds before a behaviour begins
MaxSample == 21
\* records appended to such buffers in one behaviour, over both buffers
MaxAppended == 2
\* processing time of those ingests
BurstTime == 20
\* processing times a recorded metric may carry: under and over 5 seconds
MetricTimes == {20, 60}
\* minutes the clock advances by, and the last instant modelled
TickMinutes == 8
MaxNow == 16

(***************************************************************************)
(* Registry: _initialize_processors                                        *)
(***************************************************************************)
HEALTHY == "healthy"
DEGRADED == "degraded"
FAILED == "failed"
UNKNOWN == "unknown"
ProcessorStatus == {HEALTHY, DEGRADED, FAILED, UNKNOWN}

PRIMARY == "primary"
HIGH_QUALITY == "high_quality"
INTERACTIVE == "interactive"
ProcessorTier == {PRIMARY, HIGH_QUALITY, INTERACTIVE}
\* Optional[ProcessorTier]
NoTier == "none"

\* keys of self.processors, in registration (dict) order
processors == <<"rembg_isnet", "modnet", "bgmatting_v2", "fast_bgmatting", "rembg_u2net">>

ProcessorNames == {processors[i] : i \in 1..Len(processors)}

\* config['tier'], config['priority'], config['expected_time'], and whether
\* config['processor'] is an object (None for the rembg entries)
config(name) ==
    CASE name = "rembg_isnet"    -> [tier |-> PRIMARY,      expected_time |-> 20, priority |-> 1, processor |-> FALSE]
      [] name = "modnet"         -> [tier |-> PRIMARY,      expected_time |-> 15, priority |-> 2, processor |-> TRUE]
      [] name = "bgmatting_v2"   -> [tier |-> HIGH_QUALITY, expected_time |-> 30, priority |-> 3, processor |-> TRUE]
      [] name = "fast_bgmatting" -> [tier |-> HIGH_QUALITY, expected_time |-> 25, priority |-> 4, processor |-> TRUE]
      [] name = "rembg_u2net"    -> [tier |-> PRIMARY,      expected_time |-> 25, priority |-> 5, processor |-> FALSE]

\* hasattr(processor, 'health_check'): MODNetProcessor and
\* BackgroundMattingV2Processor define it, FastBGMattingProcessor does not
has_health_check(name) == name \in {"modnet", "bgmatting_v2"}

\* self.failover_threshold = 5.0
failover_threshold == 50
\* self.max_retries = 3
max_retries == 3
\* timeout=self.failover_threshold + 2.0
wait_for_timeout == failover_threshold + 20

(***************************************************************************)
(* Python dict as a sequence of <<key, value>> in insertion order          *)
(***************************************************************************)
DictHas(d, k) == \E i \in 1..Len(d) : d[i][1] = k

\* d.get(k, default)
DictGet(d, k, default) ==
    IF DictHas(d, k) THEN d[CHOOSE i \in 1..Len(d) : d[i][1] = k][2] ELSE default

\* d[k] = v : an existing key keeps its position, a new key goes last
DictSet(d, k, v) ==
    IF DictHas(d, k)
    THEN [i \in 1..Len(d) |-> IF d[i][1] = k THEN <<k, v>> ELSE d[i]]
    ELSE Append(d, <<k, v>>)

VARIABLES
    processor_health,     \* self.processor_health: dict name -> ProcessorStatus
    performance_history,  \* self.performance_history: name -> counters
    pc,                   \* per request: "idle", "invoking", "returned", "failed"
    processor_order,      \* per request: the list _get_processor_order returned
    pos,                  \* per request: position of the for loop in processor_order
    attempts,             \* per request: local attempts
    last_error,           \* per request: local last_error
    result,               \* per request: processor_used of the returned tuple
    invoked,              \* per request: the backends it has invoked so far
    produced,             \* per request: some backend call of it returned a result
    begun,                \* backend calls begun so far, over all requests
    probe,                \* the get_processor_health_report call in progress
    calls                 \* calls of the public operations begun so far

\* the state of the MultiLibraryProcessor
mlpVars == <<processor_health, performance_history, pc, processor_order, pos, attempts,
             last_error, result, invoked, produced, begun, probe, calls>>

VARIABLES
    active_tests,         \* ABTestingFramework.active_tests: test_id -> ABTestConfig
    variant_assignments,  \* ABTestingFramework.variant_assignments: session -> variant
    test_results,         \* ABTestingFramework.test_results: test_id -> deque of TestResult
    last_call,            \* the last call of the framework: arguments and returned value
    returned,             \* per (session, test_id): the variants assign_variant has returned
    caller                \* per caller of assign_processing_variant: its position and result

\* the state of the ABTestingFramework and of its callers
abVars == <<active_tests, variant_assignments, test_results, last_call, returned, caller>>

VARIABLES
    metrics_buffer,       \* PerformanceMonitor.metrics_buffer: deque of PerformanceMetric
    performance_stats,    \* PerformanceMonitor.performance_stats
    now,                  \* datetime.utcnow(), in minutes
    fired,                \* the alerts whose callback the last _check_alerts invoked
    current_stats,        \* the dict the last get_current_stats returned
    recorded,             \* record_processing_metric calls made so far
    alert_log,            \* the last _check_alerts: alerts evaluated, callbacks called,
                          \* errors logged, and what the call let propagate
    system_health         \* the observations log_system_health has emitted

\* the state of the PerformanceMonitor
pmVars == <<metrics_buffer, performance_stats, now, fired, current_stats, recorded,
            alert_log, system_health>>

VARIABLES
    processing_status,    \* BackgroundRemovalService.processing_status: id -> ProcessingStatus
    job                   \* per processing id: where its remove_background call is

\* the state of the BackgroundRemovalService and of its remove_background calls
brsVars == <<processing_status, job>>

vars == <<mlpVars, abVars, pmVars, brsVars>>

reqVars == <<pc, processor_order, pos, attempts, last_error, result, invoked, produced, begun>>

RequestIds == {Requests[i] : i \in 1..Len(Requests)}

(***************************************************************************)
(* _get_processor_order                                                    *)
(***************************************************************************)
\* the nested sort_key(processor_name)
sort_key(health, processor_name, preferred_tier, quality_mode) ==
    LET cfg == config(processor_name)
        base == cfg.priority
        tierBonus == IF preferred_tier # NoTier /\ cfg.tier = preferred_tier THEN 10 ELSE 0
        modeBonus ==
            IF quality_mode
            THEN IF cfg.tier = HIGH_QUALITY THEN 5
                 ELSE IF processor_name = "bgmatting_v2" THEN 8 ELSE 0
            ELSE IF cfg.expected_time <= 20 THEN 3 ELSE 0
        health_status == DictGet(health, processor_name, UNKNOWN)
        penalty == IF health_status = DEGRADED THEN 5
                   ELSE IF health_status = FAILED THEN 100 ELSE 0
    IN  base - tierBonus - modeBonus + penalty

\* sorted(seq, key=...): stable, ascending; key is a function on the elements
sorted(seq, key) ==
    LET n == Len(seq)
        rank(i) == Cardinality({j \in 1..n : key[seq[j]] < key[seq[i]]
                                             \/ (key[seq[j]] = key[seq[i]] /\ j < i)}) + 1
    IN  [k \in 1..n |-> seq[CHOOSE i \in 1..n : rank(i) = k]]

\* available_processors: names with a health entry that is not FAILED, in the
\* order of the health dict; every registered name when that list is empty
available_processors(health) ==
    LET kept == SelectSeq(health, LAMBDA e : e[2] # FAILED)
        names == [i \in 1..Len(kept) |-> kept[i][1]]
    IN  IF names = <<>> THEN processors ELSE names

_get_processor_order(health, preferred_tier, quality_mode) ==
    LET key == [name \in ProcessorNames |-> sort_key(health, name, preferred_tier, quality_mode)]
    IN  sorted(available_processors(health), key)

(***************************************************************************)
(* _update_performance_tracking                                            *)
(***************************************************************************)
\* the counters kept in one dict shared by every backend: an attempt counts
\* for all of them
_update_performance_tracking_shared(history, processor_name, success) ==
    [n \in DOMAIN history |->
        [total_attempts |-> history[n].total_attempts + 1,
         successful_attempts |-> history[n].successful_attempts + (IF success THEN 1 ELSE 0)]]

\* history['total_attempts'] += 1, and successful_attempts on success; a name
\* with no history yet starts from zero counters
_update_performance_tracking(history, processor_name, success) ==
    [history EXCEPT ![processor_name] =
        [total_attempts |-> @.total_attempts + 1,
         successful_attempts |-> @.successful_attempts + (IF success THEN 1 ELSE 0)]]

(***************************************************************************)
(* process_with_fallback                                                   *)
(***************************************************************************)
\* processor_name.startswith('rembg_') takes the branch without
\* asyncio.wait_for; every other backend is called under wait_for
UnderTimeout(processor_name) == processor_name \notin {"rembg_isnet", "rembg_u2net"}

\* the comparison with the threshold made strict
WithinBudgetStrict(process_time) == process_time < failover_threshold

\* if process_time <= self.failover_threshold
WithinBudget(process_time) == process_time <= failover_threshold

\* the for loop from position i: position of the next backend to invoke, 0 when
\* the loop ends (max_retries reached, or list exhausted) and the call raises
RECURSIVE NextInvoked(_, _, _, _)
NextInvoked(health, order, i, att) ==
    IF i > Len(order) THEN 0
    ELSE IF att >= max_retries THEN 0
    ELSE IF DictGet(health, order[i], "none") = FAILED
         THEN NextInvoked(health, order, i + 1, att)
         ELSE i

Current(r) == processor_order[r][pos[r]]

\* the loop dispatching to the candidate at position p and, without awaiting
\* it, to the one after it
EnterSpeculative(r, order, p, before) ==
    /\ p # 0 => begun < MaxInvocations
    /\ begun' = IF p = 0 THEN begun ELSE begun + 1
    /\ pos' = [pos EXCEPT ![r] = p]
    /\ pc' = [pc EXCEPT ![r] = IF p = 0 THEN "failed" ELSE "invoking"]
    /\ invoked' = [invoked EXCEPT ![r] =
                      IF p = 0 THEN before
                      ELSE before \cup {order[q] : q \in {p, p + 1} \cap 1..Len(order)}]

\* the loop reaches position p of the list order (0: it ended): the request
\* invokes order[p], or raises "All processors failed"
Enter(r, order, p, before) ==
    /\ p # 0 => begun < MaxInvocations
    /\ begun' = IF p = 0 THEN begun ELSE begun + 1
    /\ pos' = [pos EXCEPT ![r] = p]
    /\ pc' = [pc EXCEPT ![r] = IF p = 0 THEN "failed" ELSE "invoking"]
    /\ invoked' = [invoked EXCEPT ![r] = IF p = 0 THEN before ELSE before \cup {order[p]}]

\* the loop goes on after an attempt: invoke the next candidate or raise
GoOn(r, health, att) ==
    /\ attempts' = [attempts EXCEPT ![r] = att]
    /\ Enter(r, processor_order[r],
             NextInvoked(health, processor_order[r], pos[r] + 1, att), invoked[r])
    /\ result' = result

\* a new call takes the first request slot that is not in use
FreeSlot(r) ==
    /\ pc[r] = "idle"
    /\ \A i, j \in 1..Len(Requests) : (Requests[j] = r /\ i < j) => pc[Requests[i]] # "idle"

StartRequest(r, mode) ==
    /\ FreeSlot(r)
    /\ calls < MaxCalls
    /\ LET order == _get_processor_order(processor_health, mode[1], mode[2])
       IN  /\ processor_order' = [processor_order EXCEPT ![r] = order]
           /\ Enter(r, order, NextInvoked(processor_health, order, 1, 0), {})
    /\ attempts' = [attempts EXCEPT ![r] = 0]
    /\ last_error' = [last_error EXCEPT ![r] = "None"]
    /\ result' = [result EXCEPT ![r] = "none"]
    /\ produced' = [produced EXCEPT ![r] = FALSE]
    /\ calls' = calls + 1
    /\ UNCHANGED <<processor_health, performance_history, probe>>
    /\ UNCHANGED <<abVars, pmVars, brsVars>>

\* the backend call returns a result after process_time; after a result above
\* the threshold `continue` skips attempts += 1
AttemptSucceeds(r, process_time) ==
    /\ pc[r] = "invoking"
    /\ UnderTimeout(Current(r)) => process_time < wait_for_timeout
    /\ performance_history' = _update_performance_tracking(performance_history, Current(r), TRUE)
    /\ produced' = [produced EXCEPT ![r] = TRUE]
    /\ IF WithinBudget(process_time)
       THEN /\ processor_health' = DictSet(processor_health, Current(r), HEALTHY)
            /\ pc' = [pc EXCEPT ![r] = "returned"]
            /\ result' = [result EXCEPT ![r] = Current(r)]
            /\ UNCHANGED <<pos, attempts, invoked, begun>>
       ELSE /\ processor_health' = DictSet(processor_health, Current(r), DEGRADED)
            /\ GoOn(r, processor_health', attempts[r])
    /\ UNCHANGED <<processor_order, last_error, probe, calls>>
    /\ UNCHANGED <<abVars, pmVars, brsVars>>

\* asyncio.wait_for cancels the call after wait_for_timeout; this branch writes
\* DEGRADED and makes no _update_performance_tracking call
AttemptTimesOut(r) ==
    /\ pc[r] = "invoking"
    /\ UnderTimeout(Current(r))
    /\ processor_health' = DictSet(processor_health, Current(r), DEGRADED)
    /\ last_error' = [last_error EXCEPT ![r] = "Timeout"]
    /\ performance_history' = performance_history
    /\ GoOn(r, processor_health', attempts[r] + 1)
    /\ UNCHANGED <<processor_order, produced, probe, calls>>
    /\ UNCHANGED <<abVars, pmVars, brsVars>>

\* the backend call raises
AttemptRaises(r) ==
    /\ pc[r] = "invoking"
    /\ processor_health' = DictSet(processor_health, Current(r), FAILED)
    /\ last_error' = [last_error EXCEPT ![r] = "error"]
    /\ performance_history' = _update_performance_tracking(performance_history, Current(r), FALSE)
    /\ GoOn(r, processor_health', attempts[r] + 1)
    /\ UNCHANGED <<processor_order, produced, probe, calls>>
    /\ UNCHANGED <<abVars, pmVars, brsVars>>

\* the caller has received the returned tuple or the exception: the frame of
\* the call, with its locals, is gone
Finish(r) ==
    /\ pc[r] \in {"returned", "failed"}
    /\ pc' = [pc EXCEPT ![r] = "idle"]
    /\ processor_order' = [processor_order EXCEPT ![r] = <<>>]
    /\ pos' = [pos EXCEPT ![r] = 0]
    /\ attempts' = [attempts EXCEPT ![r] = 0]
    /\ last_error' = [last_error EXCEPT ![r] = "None"]
    /\ result' = [result EXCEPT ![r] = "none"]
    /\ invoked' = [invoked EXCEPT ![r] = {}]
    /\ produced' = [produced EXCEPT ![r] = FALSE]
    /\ UNCHANGED <<processor_health, performance_history, begun, probe, calls>>
    /\ UNCHANGED <<abVars, pmVars, brsVars>>

(***************************************************************************)
(* get_processor_health_report                                             *)
(***************************************************************************)
EmptyReport ==
    [at |-> 0, status |-> UNKNOWN,
     processors |-> [n \in ProcessorNames |-> "none"],
     summary |-> [healthy_processors |-> 0, degraded_processors |-> 0, failed_processors |-> 0]]

\* report['processors'][name] = processor_info, then the summary counts by the
\* local `status` read at the top of the iteration
AddEntry(rep, name, info_status, status) ==
    [rep EXCEPT
        !.processors[name] = info_status,
        !.summary.healthy_processors = @ + (IF status = HEALTHY THEN 1 ELSE 0),
        !.summary.degraded_processors = @ + (IF status = DEGRADED THEN 1 ELSE 0),
        !.summary.failed_processors = @ + (IF status = FAILED THEN 1 ELSE 0)]

\* the for loop from index i up to the next await of a health_check
RECURSIVE ReportFrom(_, _, _)
ReportFrom(health, i, rep) ==
    IF i > Len(processors) THEN [rep EXCEPT !.at = 0]
    ELSE LET name == processors[i]
             status == DictGet(health, name, UNKNOWN)
         IN  IF config(name).processor /\ has_health_check(name)
             THEN [rep EXCEPT !.at = i, !.status = status]
             ELSE ReportFrom(health, i + 1, AddEntry(rep, name, status, status))

ProbeBegin ==
    /\ probe.at = 0
    /\ calls < MaxCalls
    /\ probe' = ReportFrom(processor_health, 1, EmptyReport)
    /\ calls' = calls + 1
    /\ UNCHANGED <<processor_health, performance_history, reqVars>>
    /\ UNCHANGED <<abVars, pmVars, brsVars>>

\* health_check() of the awaited processor returns is_healthy
ProbeResume(is_healthy) ==
    /\ probe.at # 0
    /\ LET name == processors[probe.at]
           demote == ~is_healthy /\ probe.status = HEALTHY
           health == IF demote THEN DictSet(processor_health, name, DEGRADED)
                     ELSE processor_health
           info == IF demote THEN DEGRADED ELSE probe.status
       IN  /\ processor_health' = health
           /\ probe' = ReportFrom(health, probe.at + 1, AddEntry(probe, name, info, probe.status))
    /\ UNCHANGED <<performance_history, reqVars, calls>>
    /\ UNCHANGED <<abVars, pmVars, brsVars>>

(***************************************************************************)
(* reset_processor_health                                                  *)
(***************************************************************************)
\* a reset of one name that clears the whole health dict
ResetOneClearsAll(processor_name) ==
    /\ calls < MaxCalls
    /\ processor_health' = <<>>
    /\ calls' = calls + 1
    /\ UNCHANGED <<performance_history, reqVars, probe>>
    /\ UNCHANGED <<abVars, pmVars, brsVars>>

\* reset_processor_health(processor_name)
ResetOne(processor_name) ==
    /\ calls < MaxCalls
    /\ processor_health' = IF DictHas(processor_health, processor_name)
                           THEN DictSet(processor_health, processor_name, UNKNOWN)
                           ELSE processor_health
    /\ calls' = calls + 1
    /\ UNCHANGED <<performance_history, reqVars, probe>>
    /\ UNCHANGED <<abVars, pmVars, brsVars>>

\* reset_processor_health(): self.processor_health.clear()
ResetAll ==
    /\ calls < MaxCalls
    /\ processor_health' = <<>>
    /\ calls' = calls + 1
    /\ UNCHANGED <<performance_history, reqVars, probe>>
    /\ UNCHANGED <<abVars, pmVars, brsVars>>

(***************************************************************************)
(* initialize_all_processors                                               *)
(***************************************************************************)
\* the processors whose config['processor'] has initialize()
Initializable == {n \in ProcessorNames : config(n).processor}

\* the health dict the loop writes, given what each initialize() returned
\* (False also stands for the except branch, which writes the same FAILED)
initialize_all_processors(success) ==
    [i \in 1..Len(processors) |->
        <<processors[i],
          IF config(processors[i]).processor /\ ~success[processors[i]] THEN FAILED ELSE HEALTHY>>]

(***************************************************************************)
(* ABTestingFramework                                                      *)
(* Traffic weights and hash values are in ten-thousandths (0.4 = 4000).    *)
(***************************************************************************)
CONTROL == "control"
VARIANT_A == "variant_a"
VARIANT_B == "variant_b"
VARIANT_C == "variant_c"
TestVariant == {CONTROL, VARIANT_A, VARIANT_B, VARIANT_C}
\* no variant (None)
NoVariant == "none"
\* values outside the enum that a caller may pass as variant
OtherVariants == {"variant_d"}

\* test_id of _setup_default_library_test
DefaultTestId == "library_performance_comparison"
\* the test ids calls are made with; "other_test" is registered by RegisterTest
\* only
TestIds == {DefaultTestId, "other_test"}
\* the session hashes calls are made with
Sessions == {"session_7602", "session_6180", "session_9084"}
\* the callers of assign_processing_variant that may be in flight together
Callers == {"c1", "c2"}

\* int(hashlib.md5(f"{session_hash}_{test_id}".encode()).hexdigest()[:8], 16) % 10000
hash_bucket(session_hash, test_id) ==
    CASE session_hash = "session_7602" /\ test_id = DefaultTestId -> 4000
      [] session_hash = "session_6180" /\ test_id = DefaultTestId -> 9000
      [] session_hash = "session_9084" /\ test_id = DefaultTestId -> 7500
      [] session_hash = "session_7602" /\ test_id = "other_test" -> 2506
      [] session_hash = "session_6180" /\ test_id = "other_test" -> 6838
      [] session_hash = "session_9084" /\ test_id = "other_test" -> 9966

\* traffic_allocation of the default test, in the order of the dict literal
default_traffic_allocation ==
    <<<<CONTROL, 4000>>, <<VARIANT_A, 3000>>, <<VARIANT_B, 2000>>, <<VARIANT_C, 1000>>>>

\* the same variants with the weights 0.1, 0.2, 0.3, 0.4
reversed_traffic_allocation ==
    <<<<CONTROL, 1000>>, <<VARIANT_A, 2000>>, <<VARIANT_B, 3000>>, <<VARIANT_C, 4000>>>>

\* the allocations a test is configured with
TrafficAllocations == {default_traffic_allocation, reversed_traffic_allocation}

\* cumulative_allocation += allocation in binary floating point: the sign of
\* (the double sum) - (the double nearest to (c + w) / 10000), where the sum so
\* far is c with error sign err. 0.7 + 0.2 is 0.8999999999999999, 0.1 + 0.2 is
\* 0.30000000000000004
float_sum_error(c, err, w) ==
    CASE c = 7000 /\ err = 0 /\ w = 2000 -> 0 - 1
      [] c = 9000 /\ err = 0 - 1 /\ w = 1000 -> 0 - 1
      [] c = 1000 /\ err = 0 /\ w = 2000 -> 1
      [] c = 3000 /\ err = 1 /\ w = 3000 -> 1
      [] OTHER -> 0

\* the for loop over traffic_allocation.items() from position i: the first
\* variant with random_value <= cumulative_allocation, CONTROL when none
RECURSIVE first_covering(_, _, _, _, _)
first_covering(traffic_allocation, i, c, err, random_value) ==
    IF i > Len(traffic_allocation) THEN CONTROL
    ELSE LET cumulative == c + traffic_allocation[i][2]
             error == float_sum_error(c, err, traffic_allocation[i][2])
         IN  IF random_value < cumulative \/ (random_value = cumulative /\ error >= 0)
             THEN traffic_allocation[i][1]
             ELSE first_covering(traffic_allocation, i + 1, cumulative, error, random_value)

\* assign_variant without the write of self.variant_assignments
assign_variant_unmemoized(assignments, tests, session_hash, test_id) ==
    IF session_hash \in DOMAIN assignments
    THEN [variant |-> assignments[session_hash], variant_assignments |-> assignments]
    ELSE IF test_id \notin DOMAIN tests \/ ~tests[test_id].enabled
    THEN [variant |-> CONTROL, variant_assignments |-> assignments]
    ELSE [variant |-> first_covering(tests[test_id].traffic_allocation, 1, 0, 0,
                                     hash_bucket(session_hash, test_id)),
          variant_assignments |-> assignments]

\* assign_variant: the returned variant and self.variant_assignments after it
assign_variant(assignments, tests, session_hash, test_id) ==
    IF session_hash \in DOMAIN assignments
    THEN [variant |-> assignments[session_hash], variant_assignments |-> assignments]
    ELSE IF test_id \notin DOMAIN tests \/ ~tests[test_id].enabled
    THEN [variant |-> CONTROL, variant_assignments |-> assignments]
    ELSE LET variant == first_covering(tests[test_id].traffic_allocation, 1, 0, 0,
                                       hash_bucket(session_hash, test_id))
         IN  [variant |-> variant,
              variant_assignments |-> (session_hash :> variant) @@ assignments]

\* the variant_configs table of get_library_config_for_variant
variant_configs ==
    [v \in TestVariant |->
        CASE v = CONTROL   -> [library |-> "rembg", model |-> "isnet-general-use", processor |-> "primary"]
          [] v = VARIANT_A -> [library |-> "rembg", model |-> "birefnet-general", processor |-> "fallback"]
          [] v = VARIANT_B -> [library |-> "modnet", model |-> "modnet-photographic-portrait", processor |-> "modnet"]
          [] v = VARIANT_C -> [library |-> "backgroundmattingv2", model |-> "bgmv2-general", processor |-> "bgmv2"]]

\* variant_configs.get(variant, variant_configs[TestVariant.CONTROL])
get_library_config_for_variant(variant) ==
    IF variant \in DOMAIN variant_configs THEN variant_configs[variant]
    ELSE variant_configs[CONTROL]

\* no call made yet; of a call: its arguments, the exception it raised ("none"
\* when it returned) and the returned variant and configuration or analysis
NoCall == [op |-> "none", session_hash |-> "none", test_id |-> "none",
           raised |-> "none", variant |-> NoVariant, config |-> "none"]

\* a call ab_testing_framework.assign_variant(session_hash, test_id)
AssignVariant(session_hash, test_id) ==
    /\ LET r == assign_variant(variant_assignments, active_tests, session_hash, test_id)
       IN  /\ variant_assignments' = r.variant_assignments
           /\ last_call' = [op |-> "assign_variant", session_hash |-> session_hash,
                            test_id |-> test_id, raised |-> "none", variant |-> r.variant,
                            config |-> "none"]
           /\ returned' = [returned EXCEPT ![<<session_hash, test_id>>] = @ \cup {r.variant}]
    /\ UNCHANGED <<active_tests, test_results, caller, mlpVars, pmVars, brsVars>>

\* a call ab_testing_framework.get_library_config_for_variant(variant)
GetLibraryConfig(variant) ==
    /\ last_call' = [op |-> "get_library_config_for_variant", session_hash |-> "none",
                     test_id |-> "none", raised |-> "none", variant |-> variant,
                     config |-> get_library_config_for_variant(variant)]
    /\ UNCHANGED <<active_tests, variant_assignments, test_results, returned, caller,
                   mlpVars, pmVars, brsVars>>

\* test_config.enabled of a registered test is switched
SetEnabled(test_id, enabled) ==
    /\ test_id \in DOMAIN active_tests
    /\ active_tests[test_id].enabled # enabled
    /\ active_tests' = [active_tests EXCEPT ![test_id].enabled = enabled]
    /\ UNCHANGED <<variant_assignments, test_results, last_call, returned, caller,
                   mlpVars, pmVars, brsVars>>

\* test_config.traffic_allocation of a registered test is replaced
SetTrafficAllocation(test_id, traffic_allocation) ==
    /\ test_id \in DOMAIN active_tests
    /\ active_tests[test_id].traffic_allocation # traffic_allocation
    /\ active_tests' = [active_tests EXCEPT ![test_id].traffic_allocation = traffic_allocation]
    /\ UNCHANGED <<variant_assignments, test_results, last_call, returned, caller,
                   mlpVars, pmVars, brsVars>>

\* traffic_allocation of a test that compares two of the variants
two_variant_traffic_allocation == <<<<VARIANT_A, 5000>>, <<VARIANT_B, 5000>>>>

\* self.active_tests[test_id] = ABTestConfig(..., enabled=True), as
\* _setup_default_library_test registers the default test
RegisterTest(test_id, traffic_allocation) ==
    /\ test_id \notin DOMAIN active_tests
    /\ active_tests' = (test_id :> [enabled |-> TRUE, traffic_allocation |-> traffic_allocation,
                                     minimum_sample_size |-> 100]) @@ active_tests
    /\ UNCHANGED <<variant_assignments, test_results, last_call, returned, caller,
                   mlpVars, pmVars, brsVars>>

\* remove_background(session_hash=...) is called: its coroutine is scheduled
RequestArrives(c, session_hash) ==
    /\ caller[c].pc = "idle"
    /\ caller' = [k \in Callers |->
                    IF k = c
                    THEN [pc |-> "pending", session_hash |-> session_hash, variant |-> NoVariant,
                          overlapped |-> \E o \in Callers \ {c} :
                                            /\ caller[o].pc = "pending"
                                            /\ caller[o].session_hash = session_hash]
                    ELSE IF caller[k].pc = "pending" /\ caller[k].session_hash = session_hash
                         THEN [caller[k] EXCEPT !.overlapped = TRUE]
                         ELSE caller[k]]
    /\ UNCHANGED <<active_tests, variant_assignments, test_results, last_call, returned,
                   mlpVars, pmVars, brsVars>>

\* the coroutine runs assign_processing_variant(session_hash), which has no
\* suspension point: assign_variant, then get_library_config_for_variant
AssignProcessingVariant(c) ==
    /\ caller[c].pc = "pending"
    /\ LET session_hash == caller[c].session_hash
           r == assign_variant(variant_assignments, active_tests, session_hash, DefaultTestId)
       IN  /\ variant_assignments' = r.variant_assignments
           /\ caller' = [caller EXCEPT ![c].pc = "assigned", ![c].variant = r.variant]
           /\ last_call' = [op |-> "assign_processing_variant", session_hash |-> session_hash,
                            test_id |-> DefaultTestId, raised |-> "none",
                            variant |-> r.variant,
                            config |-> get_library_config_for_variant(r.variant)]
           /\ returned' = [returned EXCEPT ![<<session_hash, DefaultTestId>>] = @ \cup {r.variant}]
    /\ UNCHANGED <<active_tests, test_results, mlpVars, pmVars, brsVars>>

(***************************************************************************)
(* PerformanceMonitor                                                      *)
(* Rates and relative thresholds are in percent (0.95 = 95), a mean is the *)
(* exact fraction <<sum, count>>, the clock is in minutes.                 *)
(***************************************************************************)
\* deque(maxlen=1000)
metrics_buffer_maxlen == 1000

\* the f"{metric.library}/{metric.model}" of the recorded metrics
LibraryKey == "rembg/isnet-general-use"

\* self.alerts after _setup_default_alerts, in the order of the add_alert calls
alerts ==
    <<[alert_id |-> "processing_time_critical", condition |-> "average_processing_time",
       threshold |-> 50, window_minutes |-> 5, enabled |-> TRUE],
      [alert_id |-> "processing_time_warning", condition |-> "average_processing_time",
       threshold |-> 40, window_minutes |-> 3, enabled |-> TRUE],
      [alert_id |-> "success_rate_critical", condition |-> "success_rate",
       threshold |-> 95, window_minutes |-> 10, enabled |-> TRUE],
      [alert_id |-> "performance_degradation", condition |-> "performance_degradation",
       threshold |-> 20, window_minutes |-> 15, enabled |-> TRUE]>>

\* seq[-n:]
last(seq, n) == IF Len(seq) <= n THEN seq ELSE SubSeq(seq, Len(seq) - n + 1, Len(seq))

\* [m for m in ms if m.success]
successful(ms) == SelectSeq(ms, LAMBDA m : m.success)

\* sum of m.processing_time over ms[lo..hi], by halves
RECURSIVE total_time_between(_, _, _)
total_time_between(ms, lo, hi) ==
    IF lo > hi THEN 0
    ELSE IF lo = hi THEN ms[lo].processing_time
    ELSE LET mid == (lo + hi) \div 2
         IN  total_time_between(ms, lo, mid) + total_time_between(ms, mid + 1, hi)

\* sum of m.processing_time over ms
total_time(ms) == total_time_between(ms, 1, Len(ms))

\* statistics.mean([m.processing_time for m in ms])
mean(ms) == <<total_time(ms), Len(ms)>>

\* an append to a deque with no maxlen
deque_append_unbounded(buffer, metric, maxlen) == Append(buffer, metric)

\* deque.append with maxlen: a full deque drops its leftmost element
deque_append(buffer, metric, maxlen) ==
    IF Len(buffer) >= maxlen THEN Append(Tail(buffer), metric) ELSE Append(buffer, metric)

\* performance_stats after __init__
fresh_performance_stats ==
    [total_requests |-> 0, successful_requests |-> 0, under_5_seconds |-> 0,
     average_processing_time |-> <<0, 1>>,
     library_performance |-> [k \in {} |-> <<>>],
     hourly_stats |-> [h \in {} |-> 0]]

\* the aggregates left as they were
_update_stats_skipped(stats, buffer, metric) == stats

\* the aggregates with total_requests taken from the length of the buffer
_update_stats_from_buffer(stats, buffer, metric) ==
    [stats EXCEPT !.total_requests = Len(buffer),
                  !.successful_requests = @ + (IF metric.success THEN 1 ELSE 0),
                  !.under_5_seconds = @ + (IF metric.success /\ metric.processing_time < 50
                                           THEN 1 ELSE 0)]

\* _update_stats(metric), buffer being self.metrics_buffer with metric appended
_update_stats(stats, buffer, metric) ==
    LET times == IF LibraryKey \in DOMAIN stats.library_performance
                 THEN stats.library_performance[LibraryKey] ELSE <<>>
        hour_key == metric.timestamp \div 60
        hour_count == IF hour_key \in DOMAIN stats.hourly_stats
                      THEN stats.hourly_stats[hour_key] ELSE 0
        successful_metrics == successful(buffer)
    IN  [total_requests |-> stats.total_requests + 1,
         successful_requests |-> stats.successful_requests + (IF metric.success THEN 1 ELSE 0),
         under_5_seconds |-> stats.under_5_seconds
                             + (IF metric.success /\ metric.processing_time < 50 THEN 1 ELSE 0),
         average_processing_time |-> IF successful_metrics # <<>>
                                     THEN mean(last(successful_metrics, 50))
                                     ELSE stats.average_processing_time,
         library_performance |-> IF metric.success
                                 THEN (LibraryKey :> last(Append(times, metric.processing_time), 50))
                                      @@ stats.library_performance
                                 ELSE stats.library_performance,
         hourly_stats |-> (hour_key :> (hour_count + 1)) @@ stats.hourly_stats]

\* [m for m in self.metrics_buffer if m.timestamp >= window_start]
recent_metrics(buffer, t, window_minutes) ==
    SelectSeq(buffer, LAMBDA m : m.timestamp >= t - window_minutes)

\* the comparison with the threshold made non-strict
BelowOrAtThreshold(successes, total, threshold) == successes * 100 <= threshold * total

\* success_rate < alert.threshold, for success_rate = successes / total
BelowThreshold(successes, total, threshold) == successes * 100 < threshold * total

_evaluate_alert_condition(alert, buffer, stats, t) ==
    LET recent == recent_metrics(buffer, t, alert.window_minutes)
        successful_metrics == successful(recent)
        baseline_avg == stats.average_processing_time
    IN  IF recent = <<>> THEN FALSE
        ELSE CASE alert.condition = "average_processing_time" ->
                    /\ successful_metrics # <<>>
                    /\ total_time(successful_metrics) > alert.threshold * Len(successful_metrics)
               [] alert.condition = "success_rate" ->
                    BelowThreshold(Len(successful_metrics), Len(recent), alert.threshold)
               [] alert.condition = "performance_degradation" ->
                    /\ Len(successful_metrics) >= 5
                    /\ baseline_avg[1] > 0
                    /\ (total_time(successful_metrics) * baseline_avg[2]
                          - baseline_avg[1] * Len(successful_metrics)) * 100
                       > alert.threshold * baseline_avg[1] * Len(successful_metrics)
               [] OTHER -> FALSE

\* the largest and the smallest processing_time of a non-empty list
max_time(ms) == CHOOSE x \in {ms[i].processing_time : i \in 1..Len(ms)} :
                    \A i \in 1..Len(ms) : ms[i].processing_time <= x
min_time(ms) == CHOOSE x \in {ms[i].processing_time : i \in 1..Len(ms)} :
                    \A i \in 1..Len(ms) : ms[i].processing_time >= x

\* get_current_stats: the returned dict (a rate is <<numerator, denominator>>)
get_current_stats(stats, buffer) ==
    LET recent_successful == successful(last(buffer, 20))
    IN  [total_requests |-> stats.total_requests,
         successful_requests |-> stats.successful_requests,
         under_5_seconds |-> stats.under_5_seconds,
         average_processing_time |-> stats.average_processing_time,
         success_rate |-> IF stats.total_requests > 0
                          THEN <<stats.successful_requests, stats.total_requests>> ELSE <<0, 1>>,
         under_5_seconds_rate |-> IF stats.total_requests > 0 /\ stats.successful_requests > 0
                                  THEN <<stats.under_5_seconds, stats.successful_requests>>
                                  ELSE <<0, 1>>,
         recent |-> IF recent_successful # <<>>
                    THEN <<mean(recent_successful), max_time(recent_successful),
                           min_time(recent_successful)>>
                    ELSE <<>>]

\* _prepare_alert_data: the alert_data handed to the callback
_prepare_alert_data(alert, buffer, stats, t) ==
    LET recent == recent_metrics(buffer, t, alert.window_minutes)
    IN  [alert_id |-> alert.alert_id, condition |-> alert.condition,
         threshold |-> alert.threshold, window_minutes |-> alert.window_minutes,
         total_requests |-> Len(recent), successful_requests |-> Len(successful(recent)),
         current_stats |-> get_current_stats(stats, buffer)]

\* what the body of an alert's default handler hands to log_system_health
_handle_alert(alert_data) ==
    [component |-> "background_removal",
     status |-> IF alert_data.alert_id \in {"processing_time_critical", "success_rate_critical"}
                THEN "unhealthy" ELSE "degraded",
     alert_type |-> alert_data.alert_id]

\* an exception raised inside the try block of _check_alerts in one call: none, or
\* for one alert the stage that raises (its evaluation, or a callable registered
\* as its alert_callback through add_alert)
NoFault == <<"none", "none">>
Faults == {NoFault} \cup ({alerts[i].alert_id : i \in 1..Len(alerts)} \X {"evaluate", "callback"})

\* the log of a _check_alerts call that has looked at no alert
NoAlertLog == [evaluated |-> {}, callbacks |-> <<>>, errors |-> {}, raised |-> "none"]

\* the loop with the try block around all of it: the first exception ends the call
RECURSIVE check_alerts_unguarded(_, _, _, _, _, _)
check_alerts_unguarded(i, buffer, stats, t, fault, log) ==
    IF i > Len(alerts) THEN log
    ELSE LET alert == alerts[i]
             seen == [log EXCEPT !.evaluated = @ \cup {alert.alert_id}]
         IN  IF ~alert.enabled THEN check_alerts_unguarded(i + 1, buffer, stats, t, fault, log)
             ELSE IF fault = <<alert.alert_id, "evaluate">>
                  THEN [seen EXCEPT !.raised = "Exception"]
             ELSE IF ~_evaluate_alert_condition(alert, buffer, stats, t)
                  THEN check_alerts_unguarded(i + 1, buffer, stats, t, fault, seen)
             ELSE LET called == [seen EXCEPT !.callbacks =
                                     Append(@, _prepare_alert_data(alert, buffer, stats, t))]
                  IN  IF fault = <<alert.alert_id, "callback">>
                      THEN [called EXCEPT !.raised = "Exception"]
                      ELSE check_alerts_unguarded(i + 1, buffer, stats, t, fault, called)

\* for alert in self.alerts.values(), from the i-th alert on: a disabled alert is
\* skipped; an exception of the evaluation or of the callback is logged by the
\* except clause of this alert's try and the loop goes on
RECURSIVE check_alerts_from(_, _, _, _, _, _)
check_alerts_from(i, buffer, stats, t, fault, log) ==
    IF i > Len(alerts) THEN log
    ELSE LET alert == alerts[i]
             seen == [log EXCEPT !.evaluated = @ \cup {alert.alert_id}]
             failed(l) == [l EXCEPT !.errors = @ \cup {alert.alert_id}]
         IN  IF ~alert.enabled THEN check_alerts_from(i + 1, buffer, stats, t, fault, log)
             ELSE IF fault = <<alert.alert_id, "evaluate">>
                  THEN check_alerts_from(i + 1, buffer, stats, t, fault, failed(seen))
             ELSE IF ~_evaluate_alert_condition(alert, buffer, stats, t)
                  THEN check_alerts_from(i + 1, buffer, stats, t, fault, seen)
             ELSE LET called == [seen EXCEPT !.callbacks =
                                     Append(@, _prepare_alert_data(alert, buffer, stats, t))]
                  IN  check_alerts_from(i + 1, buffer, stats, t, fault,
                                        IF fault = <<alert.alert_id, "callback">>
                                        THEN failed(called) ELSE called)

\* _check_alerts
_check_alerts(buffer, stats, t, fault) ==
    IF buffer = <<>> THEN NoAlertLog
    ELSE check_alerts_from(1, buffer, stats, t, fault, NoAlertLog)

\* alert.alert_callback(alert_data) for the calls of one _check_alerts. The default
\* callbacks are coroutine functions and the call is not awaited: each call only
\* makes a coroutine object that is dropped, so no handler body runs and
\* log_system_health emits nothing.
emit_system_health(health, callbacks) == health

\* record_processing_metric at time t: append, _update_stats, _check_alerts
record_processing_metric(m, processing_time, success, t, fault) ==
    LET metric == [timestamp |-> t, processing_time |-> processing_time, success |-> success]
        buffer == deque_append(m.metrics_buffer, metric, metrics_buffer_maxlen)
        stats == _update_stats(m.performance_stats, buffer, metric)
        log == _check_alerts(buffer, stats, t, fault)
    IN  [metrics_buffer |-> buffer, performance_stats |-> stats,
         fired |-> {log.callbacks[i].alert_id : i \in 1..Len(log.callbacks)},
         alert_log |-> log,
         system_health |-> emit_system_health(m.system_health, log.callbacks)]

\* a call record_processing_metric(processing_time=..., success=...)
RecordProcessingMetric(processing_time, success, fault) ==
    /\ recorded < MaxRecorded
    /\ LET m == record_processing_metric(
                    [metrics_buffer |-> metrics_buffer, performance_stats |-> performance_stats,
                     fired |-> fired, alert_log |-> alert_log,
                     system_health |-> system_health], processing_time, success, now, fault)
       IN  /\ metrics_buffer' = m.metrics_buffer
           /\ performance_stats' = m.performance_stats
           /\ fired' = m.fired
           /\ alert_log' = m.alert_log
           /\ system_health' = m.system_health
    /\ recorded' = recorded + 1
    /\ UNCHANGED <<now, current_stats, mlpVars, abVars, brsVars>>

\* remove_background of caller c, resumed after its processing, awaits
\* record_processing_performance(..., success=True, ...): record_processing_metric
\* runs with no suspension point between its append, _update_stats and _check_alerts
RecordProcessingPerformance(c, processing_time) ==
    /\ caller[c].pc = "assigned"
    /\ LET m == record_processing_metric(
                    [metrics_buffer |-> metrics_buffer, performance_stats |-> performance_stats,
                     fired |-> fired, alert_log |-> alert_log,
                     system_health |-> system_health], processing_time, TRUE, now, NoFault)
       IN  /\ metrics_buffer' = m.metrics_buffer
           /\ performance_stats' = m.performance_stats
           /\ fired' = m.fired
           /\ alert_log' = m.alert_log
           /\ system_health' = m.system_health
    /\ recorded' = recorded + 1
    /\ caller' = [caller EXCEPT ![c].pc = "recorded"]
    /\ UNCHANGED <<now, current_stats, mlpVars, active_tests, variant_assignments,
                   test_results, last_call, returned, brsVars>>

\* a call get_current_stats()
GetCurrentStats ==
    /\ current_stats' = get_current_stats(performance_stats, metrics_buffer)
    /\ UNCHANGED <<metrics_buffer, performance_stats, now, fired, recorded, alert_log,
                   system_health, mlpVars, abVars, brsVars>>

\* the clock advances
Tick ==
    /\ now + TickMinutes <= MaxNow
    /\ now' = now + TickMinutes
    /\ UNCHANGED <<metrics_buffer, performance_stats, fired, current_stats, recorded,
                   alert_log, system_health, mlpVars, abVars, brsVars>>

\* the monitor after the ingests numbered i..j of a burst at instant t, the first f
\* ingests of the burst being failures; by halves, the first half being done
\* before the second begins
RECURSIVE burst_between(_, _, _, _, _)
burst_between(m, i, j, f, t) ==
    IF i > j THEN m
    ELSE IF i = j THEN record_processing_metric(m, BurstTime, i > f, t, NoFault)
    ELSE LET mid == (i + j) \div 2
         IN  CHOOSE after \in {burst_between(half, mid + 1, j, f, t) :
                                  half \in {burst_between(m, i, mid, f, t)}} : TRUE

\* the monitor after n ingests at one instant t, the first f of them failures
burst(m, n, f, t) == burst_between(m, 1, n, f, t)

(***************************************************************************)
(* ABTestingFramework: test results and their analysis                     *)
(***************************************************************************)
\* deque(maxlen=10000)
test_results_maxlen == 10000

\* the results of all deques of self.test_results together that were recorded
\* since the clock's origin; they are the last ones of their deque, at most
\* MaxResults of them
RECURSIVE results_held(_, _)
results_held(results, ids) ==
    IF ids = {} THEN 0
    ELSE LET id == CHOOSE x \in ids : TRUE
         IN  Len(SelectSeq(last(results[id], MaxResults), LAMBDA r : r.timestamp >= 0))
             + results_held(results, ids \ {id})

\* a call record_test_result(test_id, variant, ..., processing_time, success, ...):
\* self.test_results[test_id].append(result), the defaultdict making the deque
RecordTestResult(test_id, variant, processing_time, success) ==
    /\ results_held(test_results, DOMAIN test_results) < MaxResults
    /\ LET held == IF test_id \in DOMAIN test_results THEN test_results[test_id] ELSE <<>>
           test_result == [variant |-> variant, processing_time |-> processing_time,
                           success |-> success, timestamp |-> now]
       IN  test_results' = (test_id :> deque_append(held, test_result, test_results_maxlen))
                           @@ test_results
    /\ UNCHANGED <<active_tests, variant_assignments, last_call, returned, caller,
                   mlpVars, pmVars, brsVars>>

\* the value at position int((percentile / 100.0) * len(values)) of the list as
\* it was passed, not sorted
_calculate_percentile_unsorted(values, percentile) ==
    IF values = <<>> THEN 0
    ELSE LET index == (percentile * Len(values)) \div 100
             last_index == Len(values) - 1
         IN  values[(IF index < last_index THEN index ELSE last_index) + 1]

\* sorted_values[min(index, len(sorted_values) - 1)], with list indices from 0;
\* index is int((percentile / 100.0) * len(sorted_values)): for percentile 95
\* and up to 5000 values the truncated float product is (95 * len) \div 100
_calculate_percentile(values, percentile) ==
    IF values = <<>> THEN 0
    ELSE LET sorted_values == sorted(values, [x \in {values[i] : i \in 1..Len(values)} |-> x])
             index == (percentile * Len(sorted_values)) \div 100
             last_index == Len(sorted_values) - 1
         IN  sorted_values[(IF index < last_index THEN index ELSE last_index) + 1]

\* processing_times = [r.processing_time for r in successful_results]
processing_times(successful_results) ==
    [i \in 1..Len(successful_results) |-> successful_results[i].processing_time]

\* calculate_variant_performance: None, the KeyError of self.active_tests[test_id],
\* or the counts and rates of the returned VariantPerformance
calculate_variant_performance(results, tests, test_id, variant, window_hours, t) ==
    IF test_id \notin DOMAIN results THEN [raised |-> "none", value |-> "None"]
    ELSE LET variant_results ==
                 SelectSeq(results[test_id],
                           LAMBDA r : r.variant = variant /\ r.timestamp >= t - window_hours * 60)
             sample_count == Len(variant_results)
             successful_results == successful(variant_results)
             under_5 == SelectSeq(successful_results, LAMBDA r : r.processing_time < 50)
         IN  IF variant_results = <<>> THEN [raised |-> "none", value |-> "None"]
             ELSE IF test_id \notin DOMAIN tests THEN [raised |-> "KeyError", value |-> "None"]
             ELSE [raised |-> "none", value |->
                  [variant |-> variant,
                   sample_count |-> sample_count,
                   success_rate |-> <<Len(successful_results), sample_count>>,
                   average_processing_time |-> IF successful_results # <<>>
                                               THEN mean(successful_results) ELSE <<0, 1>>,
                   p95_processing_time |-> IF successful_results # <<>>
                                           THEN _calculate_percentile(
                                                    processing_times(successful_results), 95)
                                           ELSE 0,
                   under_5_seconds_rate |-> IF successful_results # <<>>
                                            THEN <<Len(under_5), Len(successful_results)>>
                                            ELSE <<0, 1>>,
                   error_rate |-> <<sample_count - Len(successful_results), sample_count>>,
                   statistical_significance |->
                       sample_count >= tests[test_id].minimum_sample_size]]

\* a call calculate_variant_performance(test_id, variant), window_hours = 24
CalculateVariantPerformance(test_id, variant) ==
    /\ LET performance == calculate_variant_performance(test_results, active_tests,
                                                        test_id, variant, 24, now)
       IN  last_call' = [op |-> "calculate_variant_performance", session_hash |-> "none",
                         test_id |-> test_id, raised |-> performance.raised,
                         variant |-> variant, config |-> performance.value]
    /\ UNCHANGED <<active_tests, variant_assignments, test_results, returned, caller,
                   mlpVars, pmVars, brsVars>>

(***************************************************************************)
(* analyze_test_performance                                                *)
(***************************************************************************)
\* the rate <<num, den>> is p / q
is_ratio(rate, p, q) == rate[1] * q = rate[2] * p

\* success_rate, under_5_seconds_rate and average_processing_time (in tenths of
\* a second) of the performances, of at most six results with processing times
\* 2.0 and 6.0, whose composite_score in binary floating point is below the
\* double nearest to its exact value (1/3 * 0.3 is 0.09999999999999999,
\* 2/3 * 0.3 is 0.19999999999999998)
ScoreRoundedDown ==
    {<<1, 1, 1, 6, 160, 3>>, <<1, 1, 3, 5, 36, 1>>, <<1, 2, 1, 3, 140, 3>>,
     <<1, 2, 2, 3, 100, 3>>, <<1, 3, 0, 1, 60, 1>>, <<1, 6, 0, 1, 60, 1>>,
     <<2, 3, 0, 1, 60, 1>>, <<2, 3, 1, 4, 50, 1>>, <<3, 4, 0, 1, 60, 1>>,
     <<3, 4, 1, 3, 140, 3>>, <<3, 5, 1, 1, 20, 1>>}

\* those whose composite_score is above it (0.25 + 0.3 + 0.04 is
\* 0.5900000000000001)
ScoreRoundedUp ==
    {<<1, 1, 1, 2, 40, 1>>, <<1, 1, 3, 4, 30, 1>>, <<1, 2, 1, 2, 40, 1>>,
     <<2, 5, 1, 2, 40, 1>>, <<4, 5, 3, 4, 30, 1>>, <<5, 6, 3, 5, 36, 1>>}

is_performance(performance, row) ==
    /\ is_ratio(performance.success_rate, row[1], row[2])
    /\ is_ratio(performance.under_5_seconds_rate, row[3], row[4])
    /\ is_ratio(performance.average_processing_time, row[5], row[6])

\* the sign of (composite_score as the float arithmetic yields it) - (the double
\* nearest to its exact value)
float_score_error(performance) ==
    IF \E row \in ScoreRoundedDown : is_performance(performance, row) THEN -1
    ELSE IF \E row \in ScoreRoundedUp : is_performance(performance, row) THEN 1
    ELSE 0

\* under_5_score + success_score + speed_score: the exact value as a fraction
\* <<num, den>> and the sign of the rounding error
composite_score(performance) ==
    LET u == performance.under_5_seconds_rate[1]
        n == performance.under_5_seconds_rate[2]
        s == performance.success_rate[1]
        m == performance.success_rate[2]
        a == performance.average_processing_time[1]
        k == performance.average_processing_time[2]
        speed == IF 50 * k - a > 0 THEN 50 * k - a ELSE 0
    IN  [exact |-> <<125 * u * m * k + 75 * s * n * k + speed * n * m, 250 * n * m * k>>,
         error |-> float_score_error(performance)]

\* x > y for two scores
score_greater(x, y) ==
    \/ x.exact[1] * y.exact[2] > y.exact[1] * x.exact[2]
    \/ /\ x.exact[1] * y.exact[2] = y.exact[1] * x.exact[2]
       /\ x.error > y.error

\* the loop with `if composite_score >= best_score`
RECURSIVE winning_from_last_tie(_, _, _, _)
winning_from_last_tie(i, variant_performances, best_variant, best_score) ==
    IF i > Len(variant_performances) THEN [variant |-> best_variant, composite_score |-> best_score]
    ELSE LET score == composite_score(variant_performances[i][2])
         IN  IF ~score_greater(best_score, score)
             THEN winning_from_last_tie(i + 1, variant_performances,
                                        variant_performances[i][1], score)
             ELSE winning_from_last_tie(i + 1, variant_performances, best_variant, best_score)

\* for variant_name, performance in variant_performances.items(), from item i
RECURSIVE winning_from(_, _, _, _)
winning_from(i, variant_performances, best_variant, best_score) ==
    IF i > Len(variant_performances) THEN [variant |-> best_variant, composite_score |-> best_score]
    ELSE LET score == composite_score(variant_performances[i][2])
         IN  IF score_greater(score, best_score)
             THEN winning_from(i + 1, variant_performances, variant_performances[i][1], score)
             ELSE winning_from(i + 1, variant_performances, best_variant, best_score)

\* best_variant = None, best_score = -1; the dict variant_performances is the
\* sequence of its items <<variant_name, performance>> in insertion order
_determine_winning_variant(variant_performances) ==
    winning_from(1, variant_performances, "None", [exact |-> <<-1, 1>>, error |-> 0])

\* the items of variant_performances from position i of traffic_allocation.keys()
RECURSIVE performances_from(_, _, _, _, _, _)
performances_from(i, results, tests, test_id, window_hours, t) ==
    LET allocation == tests[test_id].traffic_allocation
    IN  IF i > Len(allocation) THEN <<>>
        ELSE LET variant == allocation[i][1]
                 performance == calculate_variant_performance(results, tests, test_id,
                                                              variant, window_hours, t)
                 rest == performances_from(i + 1, results, tests, test_id, window_hours, t)
                 \* calculate_variant_performance returns None
                 none == \/ test_id \notin DOMAIN results
                         \/ \A j \in 1..Len(results[test_id]) :
                               \/ results[test_id][j].variant # variant
                               \/ results[test_id][j].timestamp < t - window_hours * 60
             IN  IF none THEN rest
                 ELSE <<<<variant, performance.value>>>> \o rest

\* the dict analyze_test_performance returns: an error, or the performances and
\* the winning variant
analyze_test_performance(results, tests, test_id, window_hours, t) ==
    IF test_id \notin DOMAIN tests
    THEN [error |-> "Test not found", variant_performances |-> <<>>,
          winning_variant |-> "none"]
    ELSE LET variant_performances == performances_from(1, results, tests, test_id,
                                                       window_hours, t)
         IN  IF variant_performances = <<>>
             THEN [error |-> "No test data available", variant_performances |-> <<>>,
                   winning_variant |-> "none"]
             ELSE [error |-> "none", variant_performances |-> variant_performances,
                   winning_variant |-> _determine_winning_variant(variant_performances)]

\* a call analyze_test_performance(test_id), window_hours = 24
AnalyzeTestPerformance(test_id) ==
    /\ LET analysis == analyze_test_performance(test_results, active_tests, test_id, 24, now)
       IN  last_call' = [op |-> "analyze_test_performance", session_hash |-> "none",
                         test_id |-> test_id, raised |-> "none",
                         variant |-> IF analysis.error = "none"
                                     THEN analysis.winning_variant.variant ELSE NoVariant,
                         config |-> analysis]
    /\ UNCHANGED <<active_tests, variant_assignments, test_results, returned, caller,
                   mlpVars, pmVars, brsVars>>

(***************************************************************************)
(* BackgroundRemovalService.remove_background                              *)
(***************************************************************************)
\* the processing ids remove_background is called with
ProcessingIds == {"id1", "id2"}

\* self.fallback_models
fallback_models == <<"birefnet-general", "u2net", "sam">>

\* no entry in self.processing_status
NoStatus == [status |-> "none", progress |-> 0]

\* no remove_background call for the id
NoJob == [pc |-> "idle", retry_count |-> 0]

\* after BackgroundRemovalService()
InitService ==
    /\ processing_status = [id \in ProcessingIds |-> NoStatus]
    /\ job = [id \in ProcessingIds |-> NoJob]

\* self.processing_status[processing_id] = ProcessingStatus(...)
_update_processing_status(statuses, processing_id, status, progress) ==
    [statuses EXCEPT ![processing_id] = [status |-> status, progress |-> progress]]

\* remove_background(image_data, processing_id, retry_count=retry_count) up to
\* its first await of a backend: status processing 10, Image.open (which raises
\* for data that is no image: status failed, raise), status processing 30
RemoveBackground(processing_id, retry_count, is_image) ==
    /\ job[processing_id].pc = "idle"
    /\ IF is_image
       THEN /\ processing_status' = _update_processing_status(processing_status, processing_id,
                                                              "processing", 30)
            /\ job' = [job EXCEPT ![processing_id] = [pc |-> "primary", retry_count |-> retry_count]]
       ELSE /\ processing_status' = _update_processing_status(processing_status, processing_id,
                                                              "failed", 0)
            /\ job' = [job EXCEPT ![processing_id] = [pc |-> "raised", retry_count |-> retry_count]]
    /\ UNCHANGED <<mlpVars, abVars, pmVars>>

\* _process_with_rembg and _optimize_output return: status processing 80, then
\* completed 100, and final_image is returned
PrimaryReturns(processing_id) ==
    /\ job[processing_id].pc = "primary"
    /\ processing_status' = _update_processing_status(processing_status, processing_id,
                                                      "completed", 100)
    /\ job' = [job EXCEPT ![processing_id].pc = "returned"]
    /\ UNCHANGED <<mlpVars, abVars, pmVars>>

\* except Exception as primary_error: status processing 50 and
\* _process_with_fallback(retry_count) while retry_count < len(fallback_models),
\* status processing 70 and _process_with_multi_library_fallback otherwise
PrimaryRaises(processing_id) ==
    /\ job[processing_id].pc = "primary"
    /\ IF job[processing_id].retry_count < Len(fallback_models)
       THEN /\ processing_status' = _update_processing_status(processing_status, processing_id,
                                                              "processing", 50)
            /\ job' = [job EXCEPT ![processing_id].pc = "fallback"]
       ELSE /\ processing_status' = _update_processing_status(processing_status, processing_id,
                                                              "processing", 70)
            /\ job' = [job EXCEPT ![processing_id].pc = "multi_library"]
    /\ UNCHANGED <<mlpVars, abVars, pmVars>>

\* _process_with_fallback returns final_image, which remove_background returns
FallbackReturns(processing_id) ==
    /\ job[processing_id].pc = "fallback"
    /\ job' = [job EXCEPT ![processing_id].pc = "returned"]
    /\ UNCHANGED <<processing_status, mlpVars, abVars, pmVars>>

\* the fallback model raises: the next fallback model is tried, or "All
\* processing methods failed" reaches the outer except: status failed, raise
FallbackRaises(processing_id) ==
    /\ job[processing_id].pc = "fallback"
    /\ IF job[processing_id].retry_count + 1 < Len(fallback_models)
       THEN /\ job' = [job EXCEPT ![processing_id].retry_count = @ + 1]
            /\ UNCHANGED processing_status
       ELSE /\ processing_status' = _update_processing_status(processing_status, processing_id,
                                                              "failed", 0)
            /\ job' = [job EXCEPT ![processing_id].pc = "raised"]
    /\ UNCHANGED <<mlpVars, abVars, pmVars>>

\* _process_with_multi_library_fallback returns final_image
MultiLibraryReturns(processing_id) ==
    /\ job[processing_id].pc = "multi_library"
    /\ job' = [job EXCEPT ![processing_id].pc = "returned"]
    /\ UNCHANGED <<processing_status, mlpVars, abVars, pmVars>>

\* _process_with_multi_library_fallback raises "All processing methods
\* exhausted": status failed, raise
MultiLibraryRaises(processing_id) ==
    /\ job[processing_id].pc = "multi_library"
    /\ processing_status' = _update_processing_status(processing_status, processing_id,
                                                      "failed", 0)
    /\ job' = [job EXCEPT ![processing_id].pc = "raised"]
    /\ UNCHANGED <<mlpVars, abVars, pmVars>>

\* cleanup_status(processing_id) after the call has ended
CleanupStatus(processing_id) ==
    /\ job[processing_id].pc \in {"returned", "raised"}
    /\ processing_status' = [processing_status EXCEPT ![processing_id] = NoStatus]
    /\ job' = [job EXCEPT ![processing_id] = NoJob]
    /\ UNCHANGED <<mlpVars, abVars, pmVars>>

(***************************************************************************)
(* Specifications                                                          *)
(***************************************************************************)
InitRequests ==
    /\ performance_history = [n \in ProcessorNames |-> [total_attempts |-> 0, successful_attempts |-> 0]]
    /\ pc = [r \in RequestIds |-> "idle"]
    /\ processor_order = [r \in RequestIds |-> <<>>]
    /\ pos = [r \in RequestIds |-> 0]
    /\ attempts = [r \in RequestIds |-> 0]
    /\ last_error = [r \in RequestIds |-> "None"]
    /\ result = [r \in RequestIds |-> "none"]
    /\ invoked = [r \in RequestIds |-> {}]
    /\ produced = [r \in RequestIds |-> FALSE]
    /\ begun = 0
    /\ probe = EmptyReport
    /\ calls = 0

\* after ABTestingFramework(), with no caller in flight
InitFramework ==
    /\ active_tests = (DefaultTestId :>
                         [enabled |-> TRUE, traffic_allocation |-> default_traffic_allocation,
                          minimum_sample_size |-> 100])
    /\ variant_assignments = [x \in {} |-> NoVariant]
    /\ test_results = [x \in {} |-> <<>>]
    /\ last_call = NoCall
    /\ returned = [x \in Sessions \X TestIds |-> {}]
    /\ caller = [c \in Callers |-> [pc |-> "idle", session_hash |-> "none",
                                    variant |-> NoVariant, overlapped |-> FALSE]]

\* PerformanceMonitor()
fresh_monitor ==
    [metrics_buffer |-> <<>>, performance_stats |-> fresh_performance_stats, fired |-> {},
     alert_log |-> NoAlertLog, system_health |-> <<>>]

\* the monitor is m, the clock at 0
InitMonitor(m) ==
    /\ metrics_buffer = m.metrics_buffer
    /\ performance_stats = m.performance_stats
    /\ fired = m.fired
    /\ alert_log = m.alert_log
    /\ system_health = m.system_health
    /\ now = 0
    /\ current_stats = <<>>
    /\ recorded = 0

\* after MultiLibraryProcessor(), ABTestingFramework() and PerformanceMonitor()
Init ==
    /\ processor_health = <<>>
    /\ InitRequests
    /\ InitService
    /\ InitFramework
    /\ InitMonitor(fresh_monitor)

\* after MultiLibraryProcessor() and one awaited initialize_all_processors(),
\* as BackgroundRemovalService does before its first process_with_fallback
InitInitialized ==
    /\ processor_health \in {initialize_all_processors(s) : s \in [Initializable -> BOOLEAN]}
    /\ InitRequests
    /\ InitService
    /\ InitFramework
    /\ InitMonitor(fresh_monitor)

\* the monitor has taken, at instant 0, all the ingests its buffer has room for but
\* at most MaxSpare, the first of them a failure; the default test holds all the
\* results its deque has room for but as many, recorded before the clock's origin
\* with processing times 1, 2, ...
InitFull ==
    /\ processor_health = <<>>
    /\ InitRequests
    /\ InitService
    /\ \E spare \in 0..MaxSpare :
          /\ InitMonitor(burst(fresh_monitor, metrics_buffer_maxlen - spare, 1, 0))
          /\ active_tests = (DefaultTestId :>
                               [enabled |-> TRUE, traffic_allocation |-> default_traffic_allocation,
                                minimum_sample_size |-> 100])
          /\ variant_assignments = [x \in {} |-> NoVariant]
          /\ test_results = (DefaultTestId :>
                               [i \in 1..(test_results_maxlen - spare) |->
                                   [variant |-> CONTROL, processing_time |-> i,
                                    success |-> TRUE, timestamp |-> -1]])
          /\ last_call = NoCall
          /\ returned = [x \in Sessions \X TestIds |-> {}]
          /\ caller = [c \in Callers |-> [pc |-> "idle", session_hash |-> "none",
                                          variant |-> NoVariant, overlapped |-> FALSE]]

\* the monitor has taken a burst of ingests at instant 0
InitMonitored ==
    /\ processor_health = <<>>
    /\ InitRequests
    /\ InitService
    /\ InitFramework
    /\ \E n \in 0..MaxBurst : \E f \in 0..MaxBurstFailures :
          /\ f <= n
          /\ InitMonitor(burst(fresh_monitor, n, f, 0))

Next ==
    \/ \E r \in RequestIds, mode \in RequestModes : StartRequest(r, mode)
    \/ \E r \in RequestIds, t \in ProcessTimes : AttemptSucceeds(r, t)
    \/ \E r \in RequestIds : AttemptTimesOut(r)
    \/ \E r \in RequestIds : AttemptRaises(r)
    \/ \E r \in RequestIds : Finish(r)
    \/ ProbeBegin
    \/ \E is_healthy \in BOOLEAN : ProbeResume(is_healthy)
    \/ \E n \in ProcessorNames : ResetOne(n)
    \/ ResetAll

Spec == Init /\ [][Next]_vars

SpecInitialized == InitInitialized /\ [][Next]_vars

\* the initialized processor while it only serves process_with_fallback calls
NextRequests ==
    \/ \E r \in RequestIds, mode \in RequestModes : StartRequest(r, mode)
    \/ \E r \in RequestIds, t \in ProcessTimes : AttemptSucceeds(r, t)
    \/ \E r \in RequestIds : AttemptTimesOut(r)
    \/ \E r \in RequestIds : AttemptRaises(r)
    \/ \E r \in RequestIds : Finish(r)

SpecRequests == InitInitialized /\ [][NextRequests]_vars

\* the framework under the configuration it is constructed with
NextFixed ==
    \/ \E s \in Sessions, e \in TestIds : AssignVariant(s, e)
    \/ \E v \in TestVariant \cup OtherVariants : GetLibraryConfig(v)
    \/ \E c \in Callers, s \in Sessions : RequestArrives(c, s)
    \/ \E c \in Callers : AssignProcessingVariant(c)

SpecFixed == Init /\ [][NextFixed]_vars

\* the framework while its tests are reconfigured
NextConfigured ==
    \/ \E s \in Sessions, e \in TestIds : AssignVariant(s, e)
    \/ \E e \in TestIds, enabled \in BOOLEAN : SetEnabled(e, enabled)
    \/ \E e \in TestIds, a \in TrafficAllocations : SetTrafficAllocation(e, a)

SpecConfigured == Init /\ [][NextConfigured]_vars

\* the framework while a second test is registered
NextRegistered ==
    \/ \E s \in Sessions, e \in TestIds : AssignVariant(s, e)
    \/ \E e \in TestIds, a \in TrafficAllocations \cup {two_variant_traffic_allocation} :
          RegisterTest(e, a)

SpecRegistered == Init /\ [][NextRegistered]_vars

\* the monitor while metrics are recorded and time passes
NextMonitored ==
    \/ \E t \in MetricTimes, success \in BOOLEAN : RecordProcessingMetric(t, success, NoFault)
    \/ GetCurrentStats
    \/ Tick

SpecMonitored == InitMonitored /\ [][NextMonitored]_vars

\* the monitor and the framework with their buffers at capacity
NextFull ==
    \/ /\ recorded + results_held(test_results, DOMAIN test_results) < MaxAppended
       /\ \/ \E t \in MetricTimes, success \in BOOLEAN :
                RecordProcessingMetric(t, success, NoFault)
          \/ \E t \in MetricTimes : RecordTestResult(DefaultTestId, CONTROL, t, TRUE)
    \/ Tick

SpecFull == InitFull /\ [][NextFull]_vars

\* the monitor while the evaluation or the callback of an alert may raise
NextFaulty ==
    \/ \E t \in MetricTimes, success \in BOOLEAN, fault \in Faults :
          RecordProcessingMetric(t, success, fault)
    \/ GetCurrentStats
    \/ Tick

SpecFaulty == Init /\ [][NextFaulty]_vars

\* requests in flight together, each recording its processing performance
NextConcurrent ==
    \/ \E c \in Callers, s \in Sessions : RequestArrives(c, s)
    \/ \E c \in Callers : AssignProcessingVariant(c)
    \/ \E c \in Callers, t \in MetricTimes : RecordProcessingPerformance(c, t)
    \/ Tick

SpecConcurrent == Init /\ [][NextConcurrent]_vars

\* the framework while test results are recorded and analysed
NextResults ==
    \/ \E e \in TestIds, v \in TestVariant, t \in MetricTimes, success \in BOOLEAN :
          RecordTestResult(e, v, t, success)
    \/ \E e \in TestIds, v \in TestVariant : CalculateVariantPerformance(e, v)
    \/ Tick

SpecResults == Init /\ [][NextResults]_vars

\* the results a test may hold before a behaviour begins: none, or three of
\* VARIANT_A of 6.0 seconds, one a failure, recorded before the clock's origin
RecordedBefore ==
    {<<>>,
     <<[variant |-> VARIANT_A, processing_time |-> 60, success |-> TRUE, timestamp |-> -1],
       [variant |-> VARIANT_A, processing_time |-> 60, success |-> TRUE, timestamp |-> -1],
       [variant |-> VARIANT_A, processing_time |-> 60, success |-> FALSE, timestamp |-> -1]>>}

InitAnalysed ==
    /\ processor_health = <<>>
    /\ InitRequests
    /\ InitService
    /\ active_tests = (DefaultTestId :>
                         [enabled |-> TRUE, traffic_allocation |-> default_traffic_allocation,
                          minimum_sample_size |-> 100])
    /\ variant_assignments = [x \in {} |-> NoVariant]
    /\ \E before \in RecordedBefore :
          test_results = IF before = <<>> THEN [x \in {} |-> <<>>]
                         ELSE (DefaultTestId :> before)
    /\ last_call = NoCall
    /\ returned = [x \in Sessions \X TestIds |-> {}]
    /\ caller = [c \in Callers |-> [pc |-> "idle", session_hash |-> "none",
                                    variant |-> NoVariant, overlapped |-> FALSE]]
    /\ InitMonitor(fresh_monitor)

\* the default test while results are recorded and analysed
NextAnalysed ==
    \/ \E v \in TestVariant, t \in MetricTimes, success \in BOOLEAN :
          RecordTestResult(DefaultTestId, v, t, success)
    \/ \E e \in TestIds : AnalyzeTestPerformance(e)

SpecAnalysed == InitAnalysed /\ [][NextAnalysed]_vars

\* the processing time of result i of n in a sample: ascending, descending, or
\* i * 7 modulo 23 (distinct values for up to 22 results)
SampleOrders == {"ascending", "descending", "shuffled"}

sample_time(order, i, n) ==
    IF order = "ascending" THEN i
    ELSE IF order = "descending" THEN n + 1 - i
    ELSE (i * 7) % 23

\* the default test holds a sample of successful CONTROL results with distinct
\* processing times, followed or not by a failed one of 6.0 seconds, all
\* recorded before the clock's origin
InitSampled ==
    /\ processor_health = <<>>
    /\ InitRequests
    /\ InitService
    /\ active_tests = (DefaultTestId :>
                         [enabled |-> TRUE, traffic_allocation |-> default_traffic_allocation,
                          minimum_sample_size |-> 100])
    /\ variant_assignments = [x \in {} |-> NoVariant]
    /\ \E n \in 1..MaxSample, order \in SampleOrders, failed \in BOOLEAN :
          test_results = (DefaultTestId :>
                            [i \in 1..n |->
                                [variant |-> CONTROL, processing_time |-> sample_time(order, i, n),
                                 success |-> TRUE, timestamp |-> -1]]
                            \o (IF failed
                                THEN <<[variant |-> CONTROL, processing_time |-> 60,
                                        success |-> FALSE, timestamp |-> -1]>>
                                ELSE <<>>))
    /\ last_call = NoCall
    /\ returned = [x \in Sessions \X TestIds |-> {}]
    /\ caller = [c \in Callers |-> [pc |-> "idle", session_hash |-> "none",
                                    variant |-> NoVariant, overlapped |-> FALSE]]
    /\ InitMonitor(fresh_monitor)

\* the performance of the variants of the sampled test is computed
NextSampled == \E v \in TestVariant : CalculateVariantPerformance(DefaultTestId, v)

SpecSampled == InitSampled /\ [][NextSampled]_vars

\* the service while remove_background calls are made
NextService ==
    \/ \E id \in ProcessingIds, retry_count \in 0..Len(fallback_models), is_image \in BOOLEAN :
          RemoveBackground(id, retry_count, is_image)
    \/ \E id \in ProcessingIds : PrimaryReturns(id)
    \/ \E id \in ProcessingIds : PrimaryRaises(id)
    \/ \E id \in ProcessingIds : FallbackReturns(id)
    \/ \E id \in ProcessingIds : FallbackRaises(id)
    \/ \E id \in ProcessingIds : MultiLibraryReturns(id)
    \/ \E id \in ProcessingIds : MultiLibraryRaises(id)
    \/ \E id \in ProcessingIds : CleanupStatus(id)

SpecService == Init /\ [][NextService]_vars

(***************************************************************************)
(* Properties                                                              *)
(***************************************************************************)
HealthOf(health, n) == DictGet(health, n, UNKNOWN)

AllFailed == \A n \in ProcessorNames : HealthOf(processor_health, n) = FAILED

StartsRequest(r) == \E mode \in RequestModes : StartRequest(r, mode)

AttemptEnds(r) ==
    \/ \E t \in ProcessTimes : AttemptSucceeds(r, t)
    \/ AttemptTimesOut(r)
    \/ AttemptRaises(r)

\* C1: a request that begins while every registered backend is FAILED still
\* invokes at least one backend (a last-resort attempt) before it can fail.
LastResortAttempt ==
    [][\A r \in RequestIds :
          (StartsRequest(r) /\ AllFailed) => (pc'[r] = "invoking" /\ invoked'[r] # {})]_vars

\* C2: an attempt that raises and an attempt that times out both leave the
\* backend FAILED, and an attempt that succeeds within the budget leaves it
\* HEALTHY and returns that backend's result and identity.
AttemptOutcomeSetsHealth ==
    [][\A r \in RequestIds :
          /\ (AttemptRaises(r) \/ AttemptTimesOut(r))
                => HealthOf(processor_health', Current(r)) = FAILED
          /\ \A t \in ProcessTimes :
                (AttemptSucceeds(r, t) /\ t <= failover_threshold)
                => /\ HealthOf(processor_health', Current(r)) = HEALTHY
                   /\ pc'[r] = "returned"
                   /\ result'[r] = Current(r)]_vars

\* C3: every backend attempt, whatever its outcome, adds exactly one outcome
\* record for that backend (total_attempts), and nothing else adds records.
OneRecordPerAttempt ==
    [][/\ \A r \in RequestIds :
            AttemptEnds(r) =>
                performance_history'[Current(r)].total_attempts
                    = performance_history[Current(r)].total_attempts + 1
       /\ (~\E r \in RequestIds : AttemptEnds(r)) => performance_history' = performance_history]_vars

\* C4: a request in which some attempt produced a result never ends in failure.
SlowSuccessBeatsNoSuccess ==
    \A r \in RequestIds : pc[r] = "failed" => ~produced[r]

\* C5: one request invokes at most max_retries backends, whatever the outcomes.
AtMostMaxRetriesInvocations ==
    \A r \in RequestIds : Cardinality(invoked[r]) <= max_retries

\* C6: when an attempt succeeds within the budget, the request sets that
\* backend HEALTHY and returns its result and identity at once, and a returned
\* request invokes no further candidate.
FirstQualifyingSuccessWins ==
    [][\A r \in RequestIds :
          /\ \A t \in ProcessTimes :
                (AttemptSucceeds(r, t) /\ t <= failover_threshold)
                => /\ HealthOf(processor_health', Current(r)) = HEALTHY
                   /\ pc'[r] = "returned"
                   /\ result'[r] = Current(r)
                   /\ invoked'[r] = invoked[r]
          /\ (pc[r] = "returned" /\ pc'[r] # "idle")
                => (pc'[r] = "returned" /\ invoked'[r] = invoked[r] /\ result'[r] = result[r])]_vars

\* a request has returned the result of its second or later candidate while
\* candidates after it were left untried
FirstQualifyingSuccessReached ==
    \E r \in RequestIds :
        /\ pc[r] = "returned"
        /\ Cardinality(invoked[r]) >= 2
        /\ result[r] = Current(r)
        /\ pos[r] < Len(processor_order[r])
        /\ HealthOf(processor_health, result[r]) = HEALTHY

\* C7: a backend whose health is FAILED stays FAILED under every step of a
\* request or a probe; only reset_processor_health moves it out of FAILED.
FailedStaysFailedUntilReset ==
    [][\/ \E n \in ProcessorNames : ResetOne(n)
       \/ ResetAll
       \/ \A n \in ProcessorNames :
             HealthOf(processor_health, n) = FAILED => HealthOf(processor_health', n) = FAILED]_vars

\* C8: every backend invocation in flight runs under the per-candidate timeout.
EveryInvocationUnderTimeout ==
    \A r \in RequestIds : pc[r] = "invoking" => UnderTimeout(Current(r))

\* C9: a request fails only when the maximum attempt count was reached or every
\* backend that is not FAILED was attempted in that request.
FailsOnlyOnExhaustion ==
    [][\A r \in RequestIds :
          (pc[r] # "failed" /\ pc'[r] = "failed")
          => \/ attempts'[r] >= max_retries
             \/ \A n \in ProcessorNames :
                   HealthOf(processor_health', n) # FAILED => n \in invoked'[r]]_vars

\* C10: for every mode, tier hint and health state the order lists each
\* registered backend exactly once.
OrderIsTotal ==
    \A tier \in ProcessorTier \cup {NoTier}, quality_mode \in BOOLEAN :
        LET order == _get_processor_order(processor_health, tier, quality_mode)
        IN  /\ Len(order) = Len(processors)
            /\ {order[i] : i \in 1..Len(order)} = ProcessorNames

\* position of a backend in self.processors (registration order)
RegistrationIndex(name) == CHOOSE i \in 1..Len(processors) : processors[i] = name

\* a health dict holding the same status for every backend, its keys inserted
\* in registration order
InRegistrationOrder(health) ==
    LET held == SelectSeq(processors, LAMBDA n : DictHas(health, n))
    IN  [i \in 1..Len(held) |-> <<held[i], DictGet(health, held[i], UNKNOWN)>>]

\* C11: the order is a function of the mode, the tier hint and the per-backend
\* health states alone: a health dict that holds the same states after another
\* history of requests and resets yields the same order, and backends with an
\* equal adjusted score appear in registration order.
OrderIsPureAndTiesFollowRegistration ==
    \A tier \in ProcessorTier \cup {NoTier}, quality_mode \in BOOLEAN :
        LET order == _get_processor_order(processor_health, tier, quality_mode)
            key == [name \in ProcessorNames |-> sort_key(processor_health, name, tier, quality_mode)]
        IN  /\ order = _get_processor_order(InRegistrationOrder(processor_health), tier, quality_mode)
            /\ \A i, j \in 1..Len(order) :
                  (i < j /\ key[order[i]] = key[order[j]])
                  => RegistrationIndex(order[i]) < RegistrationIndex(order[j])

\* a step of get_processor_health_report
ProbeStep == ProbeBegin \/ \E is_healthy \in BOOLEAN : ProbeResume(is_healthy)

\* C18: get_current_stats, the variant analysis and get_processor_health_report
\* are pure reads: a step of any of them changes no backend health state, no
\* running aggregate, no buffer and no session assignment.
ReportQueriesArePureReads ==
    [][(\/ ProbeStep
        \/ GetCurrentStats
        \/ \E e \in TestIds, v \in TestVariant : CalculateVariantPerformance(e, v))
       => UNCHANGED <<processor_health, performance_history, metrics_buffer,
                      performance_stats, test_results, variant_assignments>>]_vars

\* processor_info['performance'] of a report entry: the dict object that
\* self.performance_history holds for the backend
ReportPerformance(history, name) == history[name]

\* the backends whose entry a step of the report writes
EntriesWritten ==
    {n \in ProcessorNames :
        /\ probe'.processors[n] # "none"
        /\ ProbeBegin \/ probe.processors[n] = "none"}

\* C19: when N >= 1 attempts are recorded for a backend, all of them successes,
\* the entry the health report writes for it shows status healthy and
\* performance.total_attempts equal to N.
RoundTripShowsHealthy ==
    [][ProbeStep =>
          \A n \in EntriesWritten :
             (/\ performance_history[n].total_attempts >= 1
              /\ performance_history[n].successful_attempts = performance_history[n].total_attempts)
             => /\ probe'.processors[n] = HEALTHY
                /\ ReportPerformance(performance_history', n).total_attempts
                      = performance_history[n].successful_attempts]_vars

\* C12: under the configuration the framework is constructed with,
\* assign_variant(s, e) is idempotent: all calls for one session and one test
\* id return the variant the first of them returned.
AssignVariantIsIdempotent ==
    \A s \in Sessions, e \in TestIds : Cardinality(returned[<<s, e>>]) <= 1

\* the variants assign_variant has returned for a session, whatever the test id
ReturnedForSession(s) == UNION {returned[<<s, e>>] : e \in TestIds}

\* C13: a session is never reassigned: all assign_variant calls for one session
\* return the same variant, also after traffic allocations were changed and
\* tests were enabled or disabled.
SessionIsNeverReassigned ==
    \A s \in Sessions : Cardinality(ReturnedForSession(s)) <= 1

\* the test id names no test, or a disabled one
UnknownOrDisabled(tests, test_id) == test_id \notin DOMAIN tests \/ ~tests[test_id].enabled

\* C14: assign_variant for a test that is unknown or disabled returns the
\* control variant, for every session and every content of the memo.
UnknownOrDisabledReturnsControl ==
    [][\A s \in Sessions, e \in TestIds :
          (AssignVariant(s, e) /\ UnknownOrDisabled(active_tests, e))
          => last_call'.variant = CONTROL]_vars

\* C15: get_library_config_for_variant returns the configuration mapped to the
\* variant itself, and fails with UnknownVariant for a variant with no mapping.
UnmappedVariantFailsLookup ==
    last_call.op = "get_library_config_for_variant"
    => IF last_call.variant \in DOMAIN variant_configs
       THEN last_call.raised = "none" /\ last_call.config = variant_configs[last_call.variant]
       ELSE last_call.raised = "UnknownVariant"

\* cum(i): the weights of the first i variants added up exactly
RECURSIVE cum(_, _)
cum(traffic_allocation, i) ==
    IF i = 0 THEN 0 ELSE cum(traffic_allocation, i - 1) + traffic_allocation[i][2]

\* the variant i with cum(i-1) <= h < cum(i)
Covering(traffic_allocation, h) ==
    LET covers == {i \in 1..Len(traffic_allocation) :
                      /\ cum(traffic_allocation, i - 1) <= h
                      /\ h < cum(traffic_allocation, i)}
    IN  IF covers = {} THEN NoVariant
        ELSE traffic_allocation[CHOOSE i \in covers : TRUE][1]

\* the hash buckets 0..9999 that the walk maps to the i-th variant
Buckets(traffic_allocation, i) ==
    {h \in 0..9999 : first_covering(traffic_allocation, 1, 0, 0, h) = traffic_allocation[i][1]}

\* every variant of the default test receives weight x 10000 buckets
DefaultSplitIsExact ==
    \A i \in 1..Len(default_traffic_allocation) :
        Cardinality(Buckets(default_traffic_allocation, i)) = default_traffic_allocation[i][2]

\* C16: for an enabled test and a session with no memoized assignment,
\* assign_variant returns the variant i with cum(i-1) <= h < cum(i) for the
\* hash value h of (session, test), and over the 10000 hash buckets each
\* variant of the default test receives exactly weight x 10000 buckets.
AssignmentFollowsCumulativeWeights ==
    [][/\ \A s \in Sessions, e \in TestIds :
             (/\ AssignVariant(s, e)
              /\ s \notin DOMAIN variant_assignments
              /\ ~UnknownOrDisabled(active_tests, e))
             => last_call'.variant = Covering(active_tests[e].traffic_allocation, hash_bucket(s, e))
       /\ DefaultSplitIsExact]_vars

\* C17: two callers of assign_processing_variant that were in flight together
\* for one session return the same variant, and the memo holds that variant.
ConcurrentFirstAssignmentsConverge ==
    \A c1, c2 \in Callers :
        (/\ caller[c1].pc = "assigned"
         /\ caller[c2].pc = "assigned"
         /\ caller[c1].session_hash = caller[c2].session_hash)
        => /\ caller[c1].variant = caller[c2].variant
           /\ caller[c1].session_hash \in DOMAIN variant_assignments
           /\ variant_assignments[caller[c1].session_hash] = caller[c1].variant

\* two callers that were pending together for one session have both been
\* assigned a variant other than the control
ConcurrentFirstAssignmentsReached ==
    \E c1, c2 \in Callers :
        /\ c1 # c2
        /\ caller[c1].pc = "assigned" /\ caller[c1].overlapped
        /\ caller[c2].pc = "assigned" /\ caller[c2].overlapped
        /\ caller[c1].session_hash = caller[c2].session_hash
        /\ caller[c1].variant = VARIANT_B
        /\ returned[<<caller[c1].session_hash, DefaultTestId>>] = {VARIANT_B}

\* the alert success_rate_critical of _setup_default_alerts
success_rate_alert ==
    alerts[CHOOSE i \in 1..Len(alerts) : alerts[i].alert_id = "success_rate_critical"]

\* positions of the records of the buffer that lie inside a window ending at t
InWindow(buffer, t, window_minutes) ==
    {i \in 1..Len(buffer) : buffer[i].timestamp >= t - window_minutes}

\* a step of record_processing_metric
Ingests == \E t \in MetricTimes, success \in BOOLEAN : RecordProcessingMetric(t, success, NoFault)

\* C20: on an ingest the success-rate alert fires exactly when the fraction of
\* successful records among the records inside its window is below its
\* threshold 0.95: it fires for a window at 0.90 (9 of 10) and does not fire
\* for a window at 0.96 (24 of 25).
SuccessRateAlertFiresBelowThreshold ==
    [][Ingests =>
          LET inside == InWindow(metrics_buffer', now', success_rate_alert.window_minutes)
              good == {i \in inside : metrics_buffer'[i].success}
              fires == success_rate_alert.alert_id \in fired'
          IN  /\ fires <=> Cardinality(good) * 100 < 95 * Cardinality(inside)
              /\ (Cardinality(inside) = 10 /\ Cardinality(good) = 9) => fires
              /\ (Cardinality(inside) = 25 /\ Cardinality(good) = 24) => ~fires]_vars

\* an ingest has left 9 successes among the 10 records of the window, and the
\* alert has fired
SuccessRateAlertFired ==
    LET inside == InWindow(metrics_buffer, now, success_rate_alert.window_minutes)
    IN  /\ recorded >= 1
        /\ metrics_buffer[Len(metrics_buffer)].timestamp = now
        /\ Cardinality(inside) = 10
        /\ Cardinality({i \in inside : metrics_buffer[i].success}) = 9
        /\ success_rate_alert.alert_id \in fired

\* C21: under every interleaving of the requests that record their performance,
\* the buffer and the aggregates reflect the same ingested records: every
\* record_processing_metric call so far is in the buffer and counted once in
\* total_requests, the success counters count the successful records of the
\* buffer, and the stats handed to each alert callback of the last alert
\* evaluation are those of that same buffer.
AlertEvaluationSeesConsistentSnapshot ==
    /\ performance_stats.total_requests = recorded
    /\ Len(metrics_buffer) = recorded
    /\ performance_stats.successful_requests = Len(successful(metrics_buffer))
    /\ performance_stats.under_5_seconds
         = Len(SelectSeq(successful(metrics_buffer), LAMBDA m : m.processing_time < 50))
    /\ \A i \in 1..Len(alert_log.callbacks) :
          /\ alert_log.callbacks[i].current_stats
               = get_current_stats(performance_stats, metrics_buffer)
          /\ alert_log.callbacks[i].total_requests <= performance_stats.total_requests

\* two requests that were in flight together have both recorded their
\* performance, and the last alert evaluation called a callback
ConcurrentIngestsReached ==
    /\ \A c \in Callers : caller[c].pc = "recorded" /\ caller[c].overlapped
    /\ performance_stats.total_requests = 2
    /\ alert_log.callbacks # <<>>

\* the ids of the enabled alerts
EnabledAlerts == {alerts[i].alert_id : i \in {j \in 1..Len(alerts) : alerts[j].enabled}}

\* C22: whatever raises while an alert is evaluated or inside its callback,
\* record_processing_metric lets no exception out, the record is in the buffer,
\* the aggregates count it, every enabled alert has been evaluated, and every
\* other alert whose condition holds has had its callback called.
AlertFaultsNeverPropagate ==
    [][\A t \in MetricTimes, success \in BOOLEAN, fault \in Faults :
          RecordProcessingMetric(t, success, fault) =>
              /\ alert_log'.raised = "none"
              /\ metrics_buffer' = Append(metrics_buffer,
                     [timestamp |-> now, processing_time |-> t, success |-> success])
              /\ performance_stats'.total_requests = performance_stats.total_requests + 1
              /\ performance_stats'.successful_requests
                   = performance_stats.successful_requests + (IF success THEN 1 ELSE 0)
              /\ alert_log'.evaluated = EnabledAlerts
              /\ \A i \in 1..Len(alerts) :
                    (/\ alerts[i].enabled
                     /\ fault # <<alerts[i].alert_id, "evaluate">>
                     /\ _evaluate_alert_condition(alerts[i], metrics_buffer',
                                                  performance_stats', now'))
                    <=> alerts[i].alert_id \in fired'
              /\ alert_log'.errors \subseteq {fault[1]}]_vars

\* the callback of the first alert raised, its error was logged, and the
\* callback of the alert after it was still called
AlertFaultSurvived ==
    /\ alert_log.errors = {"processing_time_critical"}
    /\ fired = {"processing_time_critical", "processing_time_warning"}
    /\ Len(metrics_buffer) = 1

\* C25: on every ingest, each enabled alert whose condition holds over its
\* window has its callback called exactly once, with the alert id, condition,
\* threshold, window and current stats, and its handler emits its
\* system-health observation; an alert that is disabled or whose condition does
\* not hold has no callback called.
FiredAlertHandlerTakesEffect ==
    [][Ingests =>
          LET invoked_callbacks == alert_log'.callbacks
          IN  \A i \in 1..Len(alerts) :
                 LET alert == alerts[i]
                     mine == {k \in 1..Len(invoked_callbacks) : invoked_callbacks[k].alert_id = alert.alert_id}
                 IN  IF /\ alert.enabled
                        /\ _evaluate_alert_condition(alert, metrics_buffer',
                                                     performance_stats', now')
                     THEN /\ Cardinality(mine) = 1
                          /\ \A k \in mine :
                                /\ invoked_callbacks[k].condition = alert.condition
                                /\ invoked_callbacks[k].threshold = alert.threshold
                                /\ invoked_callbacks[k].window_minutes = alert.window_minutes
                                /\ invoked_callbacks[k].current_stats
                                     = get_current_stats(performance_stats', metrics_buffer')
                                /\ \E j \in (Len(system_health) + 1)..Len(system_health') :
                                      system_health'[j] = _handle_alert(invoked_callbacks[k])
                     ELSE mine = {}]_vars

\* the alert performance_degradation of _setup_default_alerts
degradation_alert == alerts[4]

\* C27: on an ingest the degradation alert fires exactly when the mean latency
\* of the successful records inside its window exceeds the long-run mean
\* latency of the monitor by more than the threshold fraction:
\* (windowMean - longRunMean) / longRunMean > threshold.
DegradationAlertFiresOnRelativeIncrease ==
    [][Ingests =>
          LET inside == recent_metrics(metrics_buffer', now', degradation_alert.window_minutes)
              windowMean == mean(successful(inside))
              longRunMean == performance_stats'.average_processing_time
          IN  degradation_alert.alert_id \in fired'
              <=> /\ windowMean[2] > 0
                  /\ longRunMean[1] > 0
                  /\ (windowMean[1] * longRunMean[2] - longRunMean[1] * windowMean[2]) * 100
                       > degradation_alert.threshold * longRunMean[1] * windowMean[2]]_vars

\* C23: the buffer of the monitor never holds more than 1000 records and the
\* results of an experiment never more than 10000; an append to a buffer that
\* is not full adds the record at the end, and an append to a full buffer drops
\* exactly the oldest record and adds the new one at the end.
BuffersAreBoundedAndEvictOldest ==
    [][/\ Len(metrics_buffer') <= 1000
       /\ \A e \in DOMAIN test_results' : Len(test_results'[e]) <= 10000
       /\ \A t \in MetricTimes, success \in BOOLEAN :
             (recorded' # recorded /\ RecordProcessingMetric(t, success, NoFault)) =>
                 LET metric == [timestamp |-> now, processing_time |-> t, success |-> success]
                 IN  metrics_buffer' = IF Len(metrics_buffer) = 1000
                                       THEN Append(Tail(metrics_buffer), metric)
                                       ELSE Append(metrics_buffer, metric)
       /\ \A t \in MetricTimes :
             (recorded' = recorded /\ RecordTestResult(DefaultTestId, CONTROL, t, TRUE)) =>
                 LET held == test_results[DefaultTestId]
                     test_result == [variant |-> CONTROL, processing_time |-> t,
                                     success |-> TRUE, timestamp |-> now]
                 IN  test_results'[DefaultTestId] = IF Len(held) = 10000
                                                    THEN Append(Tail(held), test_result)
                                                    ELSE Append(held, test_result)]_vars

\* both buffers are full, the failure that was the oldest record of the monitor
\* has been dropped, and the oldest result held is the second one of the start
OldestEvicted ==
    /\ Len(metrics_buffer) = 1000
    /\ metrics_buffer[1].success
    /\ metrics_buffer[1000].timestamp = 8
    /\ Len(test_results[DefaultTestId]) = 10000
    /\ test_results[DefaultTestId][1].processing_time = 2
    /\ test_results[DefaultTestId][10000].timestamp = 8

\* the transitions of the per-backend state machine, a backend that stays in
\* its state included
AllowedTransition(before, after) ==
    \/ after = before
    \/ before = UNKNOWN /\ after = HEALTHY
    \/ before = HEALTHY /\ after = DEGRADED
    \/ before = DEGRADED /\ after = HEALTHY
    \/ after = FAILED

ResetStep == ResetAll \/ \E n \in ProcessorNames : ResetOne(n)

\* C24: every change of a backend's health follows the state machine Unknown to
\* Healthy, Healthy to Degraded, Degraded to Healthy, any state to Failed; a
\* backend becomes Unknown only in a step of reset_processor_health.
HealthFollowsStateMachine ==
    [][\A n \in ProcessorNames :
          LET before == HealthOf(processor_health, n)
              after == HealthOf(processor_health', n)
          IN  \/ AllowedTransition(before, after)
              \/ after = UNKNOWN /\ ResetStep]_vars

\* sort_key without the adjustment of a processing mode: priority, tier
\* preference and health penalty
score_without_mode(health, processor_name, preferred_tier) ==
    LET cfg == config(processor_name)
        tierBonus == IF preferred_tier # NoTier /\ cfg.tier = preferred_tier THEN 10 ELSE 0
        health_status == DictGet(health, processor_name, UNKNOWN)
        penalty == IF health_status = DEGRADED THEN 5
                   ELSE IF health_status = FAILED THEN 100 ELSE 0
    IN  cfg.priority - tierBonus + penalty

\* what quality mode takes off the ordering score of a backend
quality_reduction(health, processor_name, preferred_tier) ==
    score_without_mode(health, processor_name, preferred_tier)
    - sort_key(health, processor_name, preferred_tier, TRUE)

HighQualityBackends == {n \in ProcessorNames : config(n).tier = HIGH_QUALITY}

\* C26: in quality mode, for every health state and tier hint, the score of
\* every HIGH_QUALITY backend is reduced by a bonus, and the reduction of
\* bgmatting_v2 is strictly larger than that of any other HIGH_QUALITY backend.
QualityModeFavoursBgmattingV2 ==
    \A preferred_tier \in ProcessorTier \cup {NoTier} :
       /\ \A n \in HighQualityBackends :
             quality_reduction(processor_health, n, preferred_tier) > 0
       /\ \A n \in HighQualityBackends \ {"bgmatting_v2"} :
             quality_reduction(processor_health, "bgmatting_v2", preferred_tier)
             > quality_reduction(processor_health, n, preferred_tier)

\* request r begins a backend invocation in this step
BeginsInvocation(r) ==
    /\ pc'[r] = "invoking"
    /\ pc[r] = "invoking" => pos'[r] # pos[r]

\* C29: within one process_with_fallback request the attempts are sequential:
\* a step dispatches to at most one backend, the backends dispatched to are the
\* attempted ones plus the one awaited, and an invocation begins only when the
\* request starts or in the step in which its previous invocation returns,
\* raises or times out.
AttemptsAreSequential ==
    [][\A r \in RequestIds :
          /\ Cardinality(invoked'[r] \ invoked[r]) <= 1
          /\ BeginsInvocation(r)
             => /\ invoked'[r] \ invoked[r] = {processor_order'[r][pos'[r]]}
                /\ \/ pc[r] = "idle" /\ StartsRequest(r)
                   \/ pc[r] = "invoking" /\ AttemptEnds(r)]_vars

\* a request awaits its second backend after its first attempt has ended
SecondAttemptInFlight ==
    \E r \in RequestIds :
       /\ pc[r] = "invoking"
       /\ pos[r] > 1
       /\ Cardinality(invoked[r]) = 2

\* 0.5*slaHitRate + 0.3*successRate + 0.2*max(0, (SLA - meanLatency)/SLA) with
\* SLA = 5 seconds (50 tenths), as a fraction <<num, den>>
ClaimedScore(performance) ==
    LET hit == performance.under_5_seconds_rate
        ok == performance.success_rate
        latency == performance.average_processing_time
        headroom == IF 50 * latency[2] > latency[1] THEN 50 * latency[2] - latency[1] ELSE 0
    IN  <<5 * hit[1] * ok[2] * 50 * latency[2]
          + 3 * ok[1] * hit[2] * 50 * latency[2]
          + 2 * headroom * hit[2] * ok[2],
          10 * hit[2] * ok[2] * 50 * latency[2]>>

Analysed == last_call.op = "analyze_test_performance" /\ last_call.config.error = "none"

\* C28: the variant an analysis returns as the winner has the highest composite
\* score 0.5*slaHitRate + 0.3*successRate + 0.2*max(0, (5 - meanLatency)/5) of
\* the analysed variants, as the code computes the scores, and is the first
\* variant in iteration order among those with that score.
WinnerHasHighestCompositeScore ==
    Analysed =>
       LET items == last_call.config.variant_performances
           winner == last_call.config.winning_variant
           score(i) == composite_score(items[i][2])
       IN  \E i \in 1..Len(items) :
              /\ winner.variant = items[i][1]
              /\ winner.composite_score = score(i)
              /\ is_ratio(score(i).exact, ClaimedScore(items[i][2])[1],
                          ClaimedScore(items[i][2])[2])
              /\ \A j \in 1..Len(items) : ~score_greater(score(j), score(i))
              /\ \A j \in 1..(i - 1) : score_greater(score(i), score(j))

\* an analysis in which a later variant has the same top score as the winner
TopScoreTieResolved ==
    /\ Analysed
    /\ LET items == last_call.config.variant_performances
       IN  \E i, j \in 1..Len(items) :
              /\ i < j
              /\ last_call.config.winning_variant.variant = items[i][1]
              /\ composite_score(items[j][2]) = composite_score(items[i][2])

\* the processing times of the successful results of a variant of the default test
SampleOf(variant) ==
    processing_times(successful(SelectSeq(test_results[DefaultTestId],
                                          LAMBDA r : r.variant = variant)))

\* C30: for every non-empty sample of n successful latencies the p95
\* calculate_variant_performance reports is the element of the sorted sample at
\* an index within one of the nearest-rank index ceil(0.95 * n) - 1, and not
\* past the last element.
P95WithinOneOfNearestRank ==
    \A v \in TestVariant :
       (/\ last_call.op = "calculate_variant_performance"
        /\ last_call.variant = v
        /\ SampleOf(v) # <<>>)
       => LET sample == SampleOf(v)
              n == Len(sample)
              sorted_sample == sorted(sample, [x \in {sample[i] : i \in 1..n} |-> x])
              nearest_rank == (95 * n + 99) \div 100 - 1
          IN  \E index \in 0..(n - 1) :
                 /\ index \in (nearest_rank - 1)..(nearest_rank + 1)
                 /\ last_call.config.p95_processing_time = sorted_sample[index + 1]

\* the p95 of a sample of twenty distinct latencies is the largest of them, one
\* position after the nearest rank
P95OnePastNearestRank ==
    /\ last_call.op = "calculate_variant_performance"
    /\ last_call.variant = CONTROL
    /\ Len(SampleOf(CONTROL)) = 20
    /\ last_call.config.p95_processing_time = 20

\* get_processor_health_report has returned the report held in probe
ReportReturned ==
    /\ probe.at = 0
    /\ \A n \in ProcessorNames : probe.processors[n] # "none"

\* the backends a report shows with the given status
ReportedWith(rep, status) == {n \in ProcessorNames : rep.processors[n] = status}

\* C31: in every report get_processor_health_report returns, healthy_processors,
\* degraded_processors and failed_processors equal the number of backends the
\* report shows as healthy, degraded and failed, also when a health probe
\* changed a status during the report.
SummaryAgreesWithEntries ==
    ReportReturned
    => /\ probe.summary.healthy_processors = Cardinality(ReportedWith(probe, HEALTHY))
       /\ probe.summary.degraded_processors = Cardinality(ReportedWith(probe, DEGRADED))
       /\ probe.summary.failed_processors = Cardinality(ReportedWith(probe, FAILED))

\* a step of the process_with_fallback call in request slot r
RequestStep(r) == StartsRequest(r) \/ AttemptEnds(r) \/ Finish(r)

\* C32: a step of a process_with_fallback request leaves the health entry and
\* the performance history of every backend the request has not invoked as
\* they were.
RequestChangesOnlyInvokedBackends ==
    [][\A r \in RequestIds :
          ((pc'[r] # pc[r] \/ pos'[r] # pos[r]) /\ RequestStep(r))
          => \A n \in ProcessorNames \ invoked[r] :
                /\ DictHas(processor_health', n) = DictHas(processor_health, n)
                /\ HealthOf(processor_health', n) = HealthOf(processor_health, n)
                /\ performance_history'[n] = performance_history[n]]_vars

\* the loop of a request has ended after four attempts, skipping the FAILED
\* backend at the end of its list: the backend is still FAILED with no attempt
SkippedBackendKept ==
    \E r \in RequestIds :
       /\ pc[r] = "failed"
       /\ Cardinality(invoked[r]) = 4
       /\ \E n \in ProcessorNames \ invoked[r] :
             /\ HealthOf(processor_health, n) = FAILED
             /\ performance_history[n].total_attempts = 0

\* the variants with a traffic allocation in a test
AllocatedVariants(test) ==
    {test.traffic_allocation[i][1] : i \in 1..Len(test.traffic_allocation)}

\* C33: for an enabled test e, assign_variant(s, e) returns a variant that has
\* a traffic allocation in e, for every session s and whatever was assigned
\* before for other tests.
AssignedVariantIsAllocatedInTest ==
    [][\A s \in Sessions, e \in TestIds :
          (/\ e \in DOMAIN active_tests
           /\ active_tests[e].enabled
           /\ AssignVariant(s, e))
          => last_call'.variant \in AllocatedVariants(active_tests[e])]_vars

\* C34: reset_processor_health changes health states only: a reset of a named
\* backend with a health entry sets it to Unknown and keeps the health of every
\* other backend, a reset of a name with no entry changes nothing, a reset
\* without a name leaves every backend Unknown, and none of them changes the
\* performance history.
ResetChangesHealthOnly ==
    [][/\ \A m \in ProcessorNames :
             ResetOne(m)
             => /\ HealthOf(processor_health', m) = UNKNOWN
                /\ \A n \in ProcessorNames \ {m} :
                      HealthOf(processor_health', n) = HealthOf(processor_health, n)
                /\ ~DictHas(processor_health, m) => processor_health' = processor_health
                /\ performance_history' = performance_history
       /\ ResetAll
          => /\ \A n \in ProcessorNames : HealthOf(processor_health', n) = UNKNOWN
             /\ performance_history' = performance_history]_vars

\* one backend has been reset to Unknown with its attempts kept, while another
\* backend keeps a health state that is not Unknown
OneBackendReset ==
    \E m, n \in ProcessorNames :
       /\ DictHas(processor_health, m)
       /\ HealthOf(processor_health, m) = UNKNOWN
       /\ performance_history[m].total_attempts > 0
       /\ HealthOf(processor_health, n) # UNKNOWN

\* under_5_seconds <= successful_requests <= total_requests
CountersInOrder(stats) ==
    /\ 0 <= stats.under_5_seconds
    /\ stats.under_5_seconds <= stats.successful_requests
    /\ stats.successful_requests <= stats.total_requests

\* total_requests is the number of records ingested: those the monitor took
\* before the behaviour began, filling its buffer but for the spare places, and
\* those recorded since
CountsEveryIngest(stats, buffer, n) ==
    \E spare \in 0..MaxSpare :
       /\ stats.total_requests = metrics_buffer_maxlen - spare + n
       /\ Len(buffer) = IF n < spare THEN metrics_buffer_maxlen - spare + n
                        ELSE metrics_buffer_maxlen

\* C35: the running aggregates satisfy under_5_seconds <= successful_requests
\* <= total_requests, total_requests is the number of records ever ingested,
\* also after the buffer has evicted old records (an ingest adds exactly one),
\* and no counter decreases.
AggregatesCountEveryIngest ==
    [][/\ CountersInOrder(performance_stats) /\ CountersInOrder(performance_stats')
       /\ CountsEveryIngest(performance_stats, metrics_buffer, recorded)
       /\ CountsEveryIngest(performance_stats', metrics_buffer', recorded')
       /\ performance_stats'.total_requests
             = performance_stats.total_requests + (recorded' - recorded)
       /\ performance_stats'.successful_requests >= performance_stats.successful_requests
       /\ performance_stats'.under_5_seconds >= performance_stats.under_5_seconds]_vars

\* the monitor has ingested more records than its buffer holds
IngestedMoreThanBuffered ==
    /\ Len(metrics_buffer) = metrics_buffer_maxlen
    /\ performance_stats.total_requests > metrics_buffer_maxlen
    /\ performance_stats.successful_requests < performance_stats.total_requests
    /\ performance_stats.under_5_seconds > 0

\* C36: whenever remove_background has returned an image for a processing id
\* the tracked status of the id is completed with progress 100, on the primary
\* path and on every fallback path, and whenever it has raised the tracked
\* status is failed.
ReturnedIsCompletedRaisedIsFailed ==
    \A id \in ProcessingIds :
       /\ job[id].pc = "returned"
          => processing_status[id] = [status |-> "completed", progress |-> 100]
       /\ job[id].pc = "raised" => processing_status[id].status = "failed"

====
